---- MODULE Spec2Model ----
(***************************************************************************)
(* Parameter / Coupler object graph and ParameterController of             *)
(* dgreving/optimizer_utils.                                               *)
(*                                                                         *)
(* Python values are records [t, n]: t = "int" carries the number n,       *)
(* t = "None" is None, any other t is the name of a raised exception.      *)
(* Names are sequences of tokens; the token "_" is one underscore, so the  *)
(* separator '__' is two consecutive "_" tokens.                           *)
(***************************************************************************)
EXTENDS Integers, Sequences, FiniteSets, TLC

VARIABLES
    name,         \* obj -> name (token sequence); IParameter.name
    raw,          \* obj -> Python value; Parameter._raw_val
    bounds,       \* obj -> <<>> (None) or <<low, high>>; Parameter._bounds
    rel,          \* obj -> BOOLEAN; Parameter.bounds_are_relative
    fit,          \* obj -> "None" | "False" | "True"; Parameter._fit
    coupler,      \* obj -> coupler id; IParameter.coupler
    couplers,     \* coupler id -> [op, base, modifier]; Coupler fields
    return_mode,  \* ScatteringFactorParameter.return_mode of "sf"
    mapping,      \* ParameterController._mapping: sequence of [key, obj]
    suffix,       \* ParameterController.suffix (token sequence)
    last,         \* the last call made: [op, obj, arg, exc, msg]
    ctrls,        \* the other ParameterControllers: id -> [suffix, mapping]
    ds,           \* the Datasets: id -> [x, y, mask, x_sim, y_sim, ...]
    fh,           \* Fitter.fom_handler: the fields of the FOMHandler
    running_index,\* hook -> how often the preprocessor hook has run
    trace,        \* the hooks and sim_funcs the last call invoked, in order
    solver,       \* the Solver of a running optimize(): [phase, bounds, ...]
    evals         \* the objective calls of two threads: id -> [pc, v, ...]

\* the state of the other controllers and of the fitting machinery
fitter_vars == <<ctrls, ds, fh, running_index, trace, solver, evals>>

vars == <<name, raw, bounds, rel, fit, coupler, couplers, return_mode,
          mapping, suffix, last, fitter_vars>>

----------------------------------------------------------------------------
(* Python values *)

Int_(n) == [t |-> "int", n |-> n]
None == [t |-> "None", n |-> 0]
Exc(e) == [t |-> e, n |-> 0]
IsExc(x) == x.t \notin {"int", "None"}

\* the element of a one-element set: Only({F(x) : x \in {e}}) is F applied to
\* the value of e, which is computed once
Only(S) == CHOOSE y \in S : TRUE

\* the recursion depth after which evaluation gives up (RecursionError)
MaxDepth == 6

\* values handed to set_value
Vals == {-1, 3}

----------------------------------------------------------------------------
(* The objects of the scene and their classes *)

Params == {"base", "m1", "m2", "dup"}
Obj == Params \cup {"ref", "cplx", "sf", "grp"}

kind == [o \in Obj |->
           CASE o \in Params -> "Parameter"
             [] o = "ref"    -> "ReferenceParameter"
             [] o = "cplx"   -> "ComplexParameter"
             [] o = "sf"     -> "ScatteringFactorParameter"
             [] o = "grp"    -> "ParameterGroup"]

Aggregates == {o \in Obj : kind[o] \in
                 {"ComplexParameter", "ScatteringFactorParameter", "ParameterGroup"}}

\* members of the aggregates (fixed at construction)
real == "base"
imag == "m1"
f_ch_r == "base"
f_ch_i == "m1"
f_m_r == "m2"
f_m_i == "dup"
group == <<"base", "m1", "m2">>

ReturnModes == {"full", "charge", "magn", "+", "-", "unknown_mode"}

----------------------------------------------------------------------------
(* Coupler.value and Parameter.value / get_value *)

\* ArithmeticCoupler.my_dict[op](x, y); an operand that is None raises
my_dict(op, x, y) ==
    IF IsExc(x) THEN x
    ELSE IF IsExc(y) THEN y
    ELSE IF x.t # "int" \/ y.t # "int" THEN Exc("TypeError")
    ELSE CASE op = "+" -> Int_(x.n + y.n)
           [] op = "-" -> Int_(x.n - y.n)
           [] op = "*" -> Int_(x.n * y.n)

RECURSIVE Coupler_value(_, _)
RECURSIVE IParameter_value(_, _)
RECURSIVE get_value(_, _, _)

\* NoCoupler.value: the raw value of the parameter it is attached to
NoCoupler_value(c, d) == raw[couplers[c].modifier]

\* IdentityCoupler.value
IdentityCoupler_value(c, d) == get_value(couplers[c].modifier, TRUE, d)

\* a coupler that combines the base's raw value instead of its coupled value
ArithmeticCoupler_value_raw_base(c, d) ==
    my_dict(couplers[c].op, raw[couplers[c].base], raw[couplers[c].modifier])

\* ArithmeticCoupler.value
ArithmeticCoupler_value(c, d) ==
    my_dict(couplers[c].op,
            IParameter_value(couplers[c].base, d),
            raw[couplers[c].modifier])

Coupler_value(c, d) ==
    IF d = 0 THEN Exc("RecursionError")
    ELSE CASE couplers[c].op = "No"       -> NoCoupler_value(c, d - 1)
           [] couplers[c].op = "Identity" -> IdentityCoupler_value(c, d - 1)
           [] OTHER                       -> ArithmeticCoupler_value(c, d - 1)

\* Parameter.value and ReferenceParameter.value: self.coupler.value
IParameter_value(o, d) == Coupler_value(coupler[o], d)

\* Parameter.get_value
Parameter_get_value(o, no_coupling, d) ==
    IF no_coupling THEN raw[o] ELSE IParameter_value(o, d)

\* ReferenceParameter.get_value
ReferenceParameter_get_value(o, no_coupling, d) ==
    IF no_coupling THEN raw[couplers[coupler[o]].base]
    ELSE IParameter_value(couplers[coupler[o]].base, d)

get_value(o, no_coupling, d) ==
    CASE kind[o] = "Parameter" -> Parameter_get_value(o, no_coupling, d)
      [] kind[o] = "ReferenceParameter" ->
             ReferenceParameter_get_value(o, no_coupling, d)

\* the reads a caller makes
value(o) == IParameter_value(o, MaxDepth)
GetValue(o) == get_value(o, FALSE, MaxDepth)
GetRaw(o) == get_value(o, TRUE, MaxDepth)

----------------------------------------------------------------------------
(* Aggregate values: complex numbers are records [t, re, im] *)

Complex_(re, im) == [t |-> "complex", re |-> re, im |-> im]
CExc(e) == [t |-> e, re |-> 0, im |-> 0]

\* x + 1J * y on two evaluated member values
MakeComplex(x, y) ==
    IF IsExc(x) THEN CExc(x.t)
    ELSE IF IsExc(y) THEN CExc(y.t)
    ELSE IF x.t # "int" \/ y.t # "int" THEN CExc("TypeError")
    ELSE Complex_(x.n, y.n)

\* ComplexParameter.value
ComplexParameter_value(o) == MakeComplex(value(real), value(imag))

\* a value whose '-' mode subtracts the real parts but adds the imaginary ones
ScatteringFactorParameter_value_sign_slip(o) ==
    LET cr == value(f_ch_r)
        ci == value(f_ch_i)
        mr == value(f_m_r)
        mi == value(f_m_i)
    IN  CASE return_mode \in {"full", "+", "plus"} ->
                 MakeComplex(my_dict("+", cr, mr), my_dict("+", ci, mi))
          [] return_mode \in {"charge", "c"} -> MakeComplex(cr, ci)
          [] return_mode \in {"magn", "mag", "magnetic", "m"} ->
                 MakeComplex(mr, mi)
          [] return_mode \in {"-", "minus"} ->
                 MakeComplex(my_dict("-", cr, mr), my_dict("+", ci, mi))
          [] OTHER -> CExc("NameError")

\* ScatteringFactorParameter.value
ScatteringFactorParameter_value(o) ==
    LET cr == value(f_ch_r)
        ci == value(f_ch_i)
        mr == value(f_m_r)
        mi == value(f_m_i)
    IN  CASE return_mode = "full" ->
                 MakeComplex(my_dict("+", cr, mr), my_dict("+", ci, mi))
          [] return_mode \in {"charge", "c"} -> MakeComplex(cr, ci)
          [] return_mode \in {"magn", "mag", "magnetic", "m"} ->
                 MakeComplex(mr, mi)
          [] return_mode \in {"+", "plus"} ->
                 MakeComplex(my_dict("+", cr, mr), my_dict("+", ci, mi))
          [] return_mode \in {"-", "minus"} ->
                 MakeComplex(my_dict("-", cr, mr), my_dict("-", ci, mi))
          [] OTHER -> CExc("NameError")

\* ParameterGroup.value
ParameterGroup_value(o) == [i \in 1..Len(group) |-> value(group[i])]

----------------------------------------------------------------------------
(* bounds getters: the result is [exc, b] *)

BOk(b) == [exc |-> "none", b |-> b]
BExc(e) == [exc |-> e, b |-> <<>>]

\* a bounds getter that scales by the raw value instead of the coupled value
Parameter_bounds_by_raw(o) ==
    IF bounds[o] = <<>> \/ ~rel[o] THEN BOk(bounds[o])
    ELSE BOk(<<bounds[o][1] * raw[o].n, bounds[o][2] * raw[o].n>>)

\* Parameter.bounds (getter)
Parameter_bounds(o) ==
    IF bounds[o] = <<>> THEN BOk(bounds[o])
    ELSE IF ~rel[o] THEN BOk(bounds[o])
    ELSE LET v == value(o)
         IN  IF IsExc(v) THEN BExc(v.t)
             ELSE IF v.t # "int" THEN BExc("TypeError")
             ELSE BOk(<<bounds[o][1] * v.n, bounds[o][2] * v.n>>)

\* ReferenceParameter.bounds (getter): self.coupler.base.bounds
ReferenceParameter_bounds(o) == Parameter_bounds(couplers[coupler[o]].base)

\* <obj>.bounds
Bounds(o) ==
    CASE kind[o] \in {"Parameter", "ScatteringFactorParameter"} ->
             Parameter_bounds(o)
      [] kind[o] = "ReferenceParameter" -> ReferenceParameter_bounds(o)
      [] kind[o] \in {"ComplexParameter", "ParameterGroup"} ->
             BExc("TypeError")

\* Parameter.fit (getter)
Parameter_fit(o) == fit[o]

\* ReferenceParameter.fit (getter)
ReferenceParameter_fit(o) == "None"

\* <obj>.fit
Fit(o) ==
    IF kind[o] = "ReferenceParameter" THEN ReferenceParameter_fit(o)
    ELSE Parameter_fit(o)

----------------------------------------------------------------------------
(* The state after construction *)

ArithOps == {"+", "-", "*"}

\* the coupler each constructor attaches; couple(self) makes self the modifier
InitCouplers(op1, op2) ==
    [c \in Obj \ {"grp"} |->
        CASE c = "m1"  -> [op |-> op1, base |-> "base", modifier |-> "m1"]
          [] c = "m2"  -> [op |-> op2, base |-> "m1", modifier |-> "m2"]
          [] c = "ref" -> [op |-> "Identity", base |-> "m1", modifier |-> "ref"]
          [] OTHER     -> [op |-> "No", base |-> "none", modifier |-> c]]

InitNames(dupname) ==
    [o \in Obj |->
        CASE o = "base" -> <<"base">>
          [] o = "m1"   -> <<"first", "_", "modifier">>
          [] o = "m2"   -> <<"second", "_", "modifier">>
          [] o = "dup"  -> dupname
          [] o = "ref"  -> <<"identical">>
          [] o = "cplx" -> <<"complex">>
          [] o = "sf"   -> <<"scatt", "_", "fac">>
          [] o = "grp"  -> <<"groupName">>]

NoCall == [op |-> "init", obj |-> "none", arg |-> <<>>, exc |-> "none",
           msg |-> <<>>]

\* the other controllers: ParameterController(suffix='a') and (suffix='b')
OtherCtrls == {"pcA", "pcB"}
InitCtrls ==
    [c \in OtherCtrls |->
        [suffix |-> IF c = "pcA" THEN <<"a">> ELSE <<"b">>, mapping |-> <<>>]]

\* Dataset.__init__: x_sim and y_sim are None (simulated = FALSE), bkg and
\* error are None (<<>>), the mask is all False and as long as x
Dataset(x, y, sim_func) ==
    [x |-> x, y |-> y, mask |-> [i \in 1..Len(x) |-> FALSE],
     simulated |-> FALSE, x_sim |-> <<>>, y_sim |-> <<>>,
     sim_func |-> sim_func, bkg |-> <<>>, error |-> <<>>]

\* the datasets of the scene: two curves of three points simulated as the
\* squares of x, two one-point datasets whose forward models read the
\* parameters, two curves (d5 with errors) on which the square roots and
\* the decimal logarithms of the metrics are whole numbers, and a curve
\* whose forward model returns fewer points for some parameter values
Dsets == {"d1", "d2", "d3", "d4", "d5", "d6", "d7"}
InitDatasets ==
    [d \in Dsets |->
        CASE d = "d1" -> Dataset(<<1, 2, 3>>, <<1, 4, 9>>, "squares")
          [] d = "d2" -> Dataset(<<1, 2, 3>>, <<1, 8, 27>>, "squares")
          [] d = "d3" -> Dataset(<<0>>, <<8>>, "f1")
          [] d = "d4" -> Dataset(<<0>>, <<2>>, "f2")
          [] d = "d5" -> [Dataset(<<1, 2, 3>>, <<1, 100, 10000>>, "powers")
                             EXCEPT !.error = <<1, 10, 100>>]
          [] d = "d6" -> Dataset(<<1, 2, 3>>, <<0, 90, 990>>, "tens")
          [] d = "d7" -> Dataset(<<1, 2, 3>>, <<1, 4, 9>>, "adaptive")]

\* numbers of the FOM computation: a quotient num / den (den = 0 is numpy's
\* nan or inf), the Python int 0 of a dataset that is not fitted, or None
Q(n, d) == [t |-> "float", num |-> n, den |-> d]
QInt(n) == [t |-> "int", num |-> n, den |-> 1]
QNone == [t |-> "None", num |-> 0, den |-> 0]

\* FOMHandler.__init__
FOMHandler_init ==
    [preprocessor_funcs |-> <<>>, datasets |-> <<>>, x_sims |-> <<>>,
     y_sims |-> <<>>, fom_arrays |-> <<>>, foms |-> <<>>,
     composite_fom |-> QNone]

Hooks == {"h1", "h2"}

\* no optimize() is running
NoSolver == [phase |-> "idle", bounds |-> <<>>, nfev |-> 0, tried |-> {},
             x |-> <<>>, last_v |-> <<>>, index0 |-> [h \in Hooks |-> 0]]

\* the threads that may call the objective, and their state before a call:
\* pc is where the call stands, v its vector, i the next pair to write,
\* seen the values of the fitted parameters its FOM was computed from, fom
\* the returned value, overlapped whether another call ran during it
Threads == {"t1", "t2"}
NoEvals == [t \in Threads |->
              [pc |-> "idle", v |-> <<>>, i |-> 1, seen |-> <<>>,
               fom |-> QNone, overlapped |-> FALSE]]

\* the objects as constructed, for one choice of the constructors' arguments
\* (fit1 is the fit argument of m1, which is constructed with bounds;
\* shared: the coupler instance given to m1 is given to m2 as well, so
\* that m2.coupler is m1.coupler and couple(m2) runs last)
ConstructWith(dupname, sfx, op1, op2, fit1, shared) ==
    /\ name = InitNames(dupname)
    /\ raw = [o \in Obj |->
                CASE o = "base" -> Int_(10)
                  [] o = "m1"   -> Int_(5)
                  [] o = "m2"   -> Int_(2)
                  [] o = "dup"  -> Int_(7)
                  [] OTHER      -> None]
    /\ bounds = [o \in Obj |->
                   CASE o = "base" -> <<-2, 2>>
                     [] o = "m1"   -> <<1, 4>>
                     [] OTHER      -> <<>>]
    /\ rel = [o \in Obj |-> FALSE]
    /\ fit = [o \in Obj |->
                IF kind[o] \in {"ReferenceParameter", "ParameterGroup"}
                THEN "None" ELSE IF o = "m1" THEN fit1 ELSE "False"]
    /\ coupler = [o \in Obj |->
                    IF o = "grp" THEN "none"
                    ELSE IF shared /\ o = "m2" THEN "m1" ELSE o]
    /\ couplers = IF shared
                  THEN [InitCouplers(op1, op2) EXCEPT !["m1"].modifier = "m2"]
                  ELSE InitCouplers(op1, op2)
    /\ return_mode = "full"
    /\ mapping = <<>>
    /\ suffix = sfx
    /\ last = NoCall
    /\ ctrls = InitCtrls
    /\ ds = InitDatasets
    /\ fh = FOMHandler_init
    /\ running_index = [h \in Hooks |-> 0]
    /\ trace = <<>>
    /\ solver = NoSolver
    /\ evals = NoEvals

\* every constructor is given a coupler of its own
Construct(dupname, sfx, op1, op2, fit1) ==
    ConstructWith(dupname, sfx, op1, op2, fit1, FALSE)

Init ==
    \E op1 \in ArithOps, op2 \in ArithOps :
        Construct(<<"base">>, <<>>, op1, op2, "False")

----------------------------------------------------------------------------
(* set_value *)

Call(op, o, exc) ==
    [op |-> op, obj |-> o, arg |-> <<>>, exc |-> exc, msg |-> <<>>]
CallArg(op, o, arg, exc) ==
    [op |-> op, obj |-> o, arg |-> arg, exc |-> exc, msg |-> <<>>]

\* the base of the coupler attached to o ("none" when it has none)
BaseOf(o) == IF coupler[o] = "none" THEN "none" ELSE couplers[coupler[o]].base

\* a set_value that also writes the value into the base of a coupled parameter
Parameter_set_value_writes_base(r, o, v) ==
    [q \in Obj |-> IF q = o \/ q = BaseOf(o) THEN Int_(v) ELSE r[q]]

\* Parameter.set_value on the raw values r: the new _raw_val of every object
Parameter_set_value(r, o, v) == [r EXCEPT ![o] = Int_(v)]

\* a ReferenceParameter that inherits the plain set_value
set_value_raises_reference_accepted(o) ==
    IF kind[o] \in {"ComplexParameter", "ParameterGroup"} THEN "TypeError"
    ELSE "none"

\* what <obj>.set_value raises, by class
set_value_raises(o) ==
    CASE kind[o] = "ReferenceParameter" -> "TypeError"
      [] kind[o] = "ComplexParameter"   -> "TypeError"
      [] kind[o] = "ParameterGroup"     -> "TypeError"
      [] OTHER                          -> "none"

set_value(o, v) ==
    /\ raw' = IF set_value_raises(o) = "none"
              THEN Parameter_set_value(raw, o, v) ELSE raw
    /\ last' = Call("set_value", o, set_value_raises(o))
    /\ UNCHANGED <<name, bounds, rel, fit, coupler, couplers, return_mode,
                   mapping, suffix>>
    /\ UNCHANGED fitter_vars

\* ScatteringFactorParameter.set_return_mode
set_return_mode(m) ==
    /\ return_mode' = m
    /\ last' = Call("set_return_mode", "sf", "none")
    /\ UNCHANGED <<name, raw, bounds, rel, fit, coupler, couplers,
                   mapping, suffix>>
    /\ UNCHANGED fitter_vars

----------------------------------------------------------------------------
(* bounds, fit and bounds_are_relative assignments *)

BoundVals == {<<>>, <<-2, 2>>}
FitVals == {"None", "False", "True"}

\* Parameter.bounds (setter): the new _bounds of every object
Parameter_bounds_setter(o, b) == [bounds EXCEPT ![o] = b]

\* what assigning <obj>.bounds raises, by class (a property without a
\* setter refuses the assignment with AttributeError)
set_bounds_raises(o) ==
    CASE kind[o] = "ReferenceParameter" -> "TypeError"
      [] kind[o] \in {"ComplexParameter", "ParameterGroup"} -> "AttributeError"
      [] OTHER -> "none"

set_bounds(o, b) ==
    /\ bounds' = IF set_bounds_raises(o) = "none"
                 THEN Parameter_bounds_setter(o, b) ELSE bounds
    /\ last' = CallArg("set_bounds", o, <<b>>, set_bounds_raises(o))
    /\ UNCHANGED <<name, raw, rel, fit, coupler, couplers, return_mode,
                   mapping, suffix>>
    /\ UNCHANGED fitter_vars

\* a fit setter that stores the flag without looking at the bounds
Parameter_fit_setter_unchecked(o, f) == [exc |-> "none", fit |-> f]

\* Parameter.fit (setter): what it raises and the _fit of o afterwards
Parameter_fit_setter(o, f) ==
    IF f \in {"False", "None"} THEN [exc |-> "none", fit |-> f]
    ELSE IF Bounds(o).exc # "none" THEN [exc |-> Bounds(o).exc, fit |-> fit[o]]
    ELSE IF Bounds(o).b # <<>> THEN [exc |-> "none", fit |-> f]
    ELSE [exc |-> "AttributeError", fit |-> fit[o]]

\* ReferenceParameter.fit (setter)
ReferenceParameter_fit_setter(o, f) == [exc |-> "TypeError", fit |-> fit[o]]

set_fit(o, f) ==
    LET r == IF kind[o] = "ReferenceParameter"
             THEN ReferenceParameter_fit_setter(o, f)
             ELSE Parameter_fit_setter(o, f)
    IN  /\ fit' = [fit EXCEPT ![o] = r.fit]
        /\ last' = CallArg("set_fit", o, <<f>>, r.exc)
        /\ UNCHANGED <<name, raw, bounds, rel, coupler, couplers, return_mode,
                       mapping, suffix>>
        /\ UNCHANGED fitter_vars

\* p.bounds_are_relative = r (a plain attribute)
set_bounds_are_relative(o, r) ==
    /\ rel' = [rel EXCEPT ![o] = r]
    /\ last' = Call("set_bounds_are_relative", o, "none")
    /\ UNCHANGED <<name, raw, bounds, fit, coupler, couplers, return_mode,
                   mapping, suffix>>
    /\ UNCHANGED fitter_vars

InitFit ==
    \E op1 \in ArithOps : Construct(<<"base">>, <<>>, op1, "+", "False")

NextFit ==
    \/ \E o \in {"base", "m1"}, v \in Vals : set_value(o, v)
    \/ \E o \in {"m1", "dup", "ref"}, b \in BoundVals : set_bounds(o, b)
    \/ \E o \in {"m1", "dup", "ref"}, f \in FitVals : set_fit(o, f)
    \/ \E r \in BOOLEAN : set_bounds_are_relative("m1", r)

SpecFit == InitFit /\ [][NextFit]_vars

----------------------------------------------------------------------------
(* ParameterController *)

\* the positions at which the separator '__' starts in a name
SepAt(nm) == {i \in 1..(Len(nm) - 1) : nm[i] = "_" /\ nm[i + 1] = "_"}

\* name.partition('__')[0]
Before(nm) ==
    IF SepAt(nm) = {} THEN nm
    ELSE SubSeq(nm, 1, (CHOOSE i \in SepAt(nm) : \A j \in SepAt(nm) : i <= j) - 1)

\* ParameterController._suffixed_name of a controller whose suffix is sfx
PC_suffixed_name(sfx, nm) ==
    IF sfx # <<>> THEN Before(nm) \o <<"_", "_">> \o sfx ELSE Before(nm)

\* ParameterController._suffixed_name of the master controller
suffixed_name(nm) == PC_suffixed_name(suffix, nm)

\* ParameterController._unsuffixed_name
unsuffixed_name(nm) == Before(nm)

\* OrderedDict: the keys, item lookup and item assignment
Keys(m) == {m[i].key : i \in DOMAIN m}
Lookup(m, k) == m[CHOOSE i \in DOMAIN m : m[i].key = k].obj
Put(m, k, o) ==
    IF k \in Keys(m)
    THEN [i \in DOMAIN m |-> IF m[i].key = k THEN [key |-> k, obj |-> o] ELSE m[i]]
    ELSE Append(m, [key |-> k, obj |-> o])

\* ParameterController.get of a controller with suffix sfx and mapping m:
\* [exc, obj, msg]
PC_get(sfx, m, key) ==
    IF PC_suffixed_name(sfx, key) \in Keys(m)
    THEN [exc |-> "none", obj |-> Lookup(m, PC_suffixed_name(sfx, key)),
          msg |-> <<>>]
    ELSE [exc |-> "KeyError", obj |-> "none", msg |-> key]

\* ParameterController.get of the master controller on the mapping m
ParameterController_get(m, key) == PC_get(suffix, m, key)

\* an add that binds the name without looking for another object under it
add_one_overwriting(m, nms, p) ==
    [exc |-> "none", msg |-> <<>>,
     mapping |-> Put(m, suffixed_name(nms[p]), p),
     name |-> [nms EXCEPT ![p] = suffixed_name(nms[p])]]

\* one iteration of the loop of ParameterController.add of a controller with
\* suffix sfx, on the mapping m and the names nms: [exc, msg, mapping, name]
PC_add_one(sfx, m, nms, p) ==
    IF /\ PC_suffixed_name(sfx, nms[p]) \in Keys(m)
       /\ p # PC_get(sfx, m, unsuffixed_name(nms[p])).obj
    THEN [exc |-> "ValueError", msg |-> unsuffixed_name(nms[p]),
          mapping |-> m, name |-> nms]
    ELSE [exc |-> "none", msg |-> <<>>,
          mapping |-> Put(m, PC_suffixed_name(sfx, nms[p]), p),
          name |-> [nms EXCEPT ![p] = PC_suffixed_name(sfx, nms[p])]]

\* one iteration of the loop of add of the master controller
add_one(m, nms, p) == PC_add_one(suffix, m, nms, p)

\* ParameterController.add(parameter, *parameters): the loop from ps[i] on
RECURSIVE add_loop(_, _, _, _)
add_loop(ps, i, m, nms) ==
    IF i > Len(ps) THEN [exc |-> "none", msg |-> <<>>, mapping |-> m, name |-> nms]
    ELSE LET r == add_one(m, nms, ps[i])
         IN  IF r.exc # "none" THEN r
             ELSE add_loop(ps, i + 1, r.mapping, r.name)

add(ps) ==
    LET r == add_loop(ps, 1, mapping, name)
    IN  /\ mapping' = r.mapping
        /\ name' = r.name
        /\ last' = [op |-> "add", obj |-> "pc", arg |-> ps,
                    exc |-> r.exc, msg |-> r.msg]
        /\ UNCHANGED <<raw, bounds, rel, fit, coupler, couplers, return_mode,
                       suffix>>
        /\ UNCHANGED fitter_vars

\* an update that undoes the assignments it made when a name is unknown
RECURSIVE update_loop_rolling_back(_, _, _)
update_loop_rolling_back(items, i, r) ==
    IF i > Len(items) THEN [exc |-> "none", msg |-> <<>>, raw |-> r]
    ELSE LET g == ParameterController_get(mapping, items[i].key)
         IN  IF g.exc # "none"
             THEN [exc |-> "KeyError", msg |-> items[i].key, raw |-> raw]
             ELSE IF set_value_raises(g.obj) # "none"
             THEN [exc |-> set_value_raises(g.obj), msg |-> <<>>, raw |-> r]
             ELSE update_loop_rolling_back(items, i + 1,
                              Parameter_set_value(r, g.obj, items[i].val))

\* ParameterController.update: the two loops run over items = the positional
\* pairs followed by the keyword pairs, from items[i] on: [exc, msg, raw]
RECURSIVE update_loop(_, _, _)
update_loop(items, i, r) ==
    IF i > Len(items) THEN [exc |-> "none", msg |-> <<>>, raw |-> r]
    ELSE LET g == ParameterController_get(mapping, items[i].key)
         IN  IF g.exc # "none"
             THEN [exc |-> "KeyError", msg |-> items[i].key, raw |-> r]
             ELSE IF set_value_raises(g.obj) # "none"
             THEN [exc |-> set_value_raises(g.obj), msg |-> <<>>, raw |-> r]
             ELSE update_loop(items, i + 1,
                              Parameter_set_value(r, g.obj, items[i].val))

\* the keys of a sequence of (key, value) pairs
KeysOf(items) == [i \in DOMAIN items |-> items[i].key]

update(key_val_tuples, kwargs) ==
    LET r == update_loop(key_val_tuples \o kwargs, 1, raw)
    IN  /\ raw' = r.raw
        /\ last' = [op |-> "update", obj |-> "pc",
                    arg |-> <<KeysOf(key_val_tuples), KeysOf(kwargs)>>,
                    exc |-> r.exc, msg |-> r.msg]
        /\ UNCHANGED <<name, bounds, rel, fit, coupler, couplers, return_mode,
                       mapping, suffix>>
        /\ UNCHANGED fitter_vars

\* sequences of at most n elements of S
RECURSIVE SeqUpTo(_, _)
SeqUpTo(S, n) ==
    IF n = 0 THEN {<<>>}
    ELSE SeqUpTo(S, n - 1) \cup
         {Append(q, x) : q \in {t \in SeqUpTo(S, n - 1) : Len(t) = n - 1}, x \in S}

\* the most parameters handed to one add
MaxArgs == 2

\* the most (key, value) pairs handed to one update
MaxPairs == 2

AddObjs == {"base", "m1", "ref", "dup"}

InitCtrl ==
    \E dupname \in {<<"base">>, <<"base", "_", "_", "old">>},
       sfx \in {<<>>, <<"sfx">>} :
        Construct(dupname, sfx, "+", "+", "False")

\* the calls add(parameter, *parameters)
AddCalls == SeqUpTo(AddObjs, MaxArgs) \ {<<>>}

NextCtrl ==
    \E ps \in AddCalls : add(ps)

SpecCtrl == InitCtrl /\ [][NextCtrl]_vars

UpdateKeys == {<<"first", "_", "modifier">>, <<"identical">>, <<"nokey">>}
Pairs == {[key |-> k, val |-> v] : k \in UpdateKeys, v \in Vals}

\* keyword arguments have distinct keys
Distinct(q) == \A i \in DOMAIN q, j \in DOMAIN q : q[i] = q[j] => i = j

\* the calls update(*pos, **kw) with at most MaxPairs pairs in all
UpdateCalls ==
    {c \in [pos : SeqUpTo(Pairs, MaxPairs), kw : SeqUpTo(Pairs, MaxPairs)] :
        Len(c.pos) + Len(c.kw) <= MaxPairs /\ Distinct(KeysOf(c.kw))}

InitUpdate ==
    \E sfx \in {<<>>, <<"sfx">>}, fit1 \in {"False", "True"} :
        Construct(<<"base">>, sfx, "+", "+", fit1)

NextUpdate ==
    \/ add(<<"base", "m1", "ref">>)
    \/ \E c \in UpdateCalls : update(c.pos, c.kw)
    \/ \E v \in Vals : set_value("ref", v)
    \/ \E b \in BoundVals : set_bounds("ref", b)
    \/ \E f \in FitVals : set_fit("ref", f)

SpecUpdate == InitUpdate /\ [][NextUpdate]_vars

\* updates that name two parameters of the controller and an unknown name
OrderKeys == {<<"base">>, <<"first", "_", "modifier">>, <<"nokey">>}
OrderPairs ==
    {[key |-> <<"base">>, val |-> v] : v \in Vals}
        \cup {[key |-> k, val |-> 3] : k \in OrderKeys \ {<<"base">>}}
OrderCalls ==
    {c \in [pos : SeqUpTo(OrderPairs, MaxPairs), kw : SeqUpTo(OrderPairs, MaxPairs)] :
        Len(c.pos) + Len(c.kw) <= MaxPairs /\ Distinct(KeysOf(c.kw))}

InitOrder == Construct(<<"base">>, <<"sfx">>, "+", "+", "False")

NextOrder ==
    \/ add(<<"base", "m1">>)
    \/ \E c \in OrderCalls : update(c.pos, c.kw)

SpecOrder == InitOrder /\ [][NextOrder]_vars

----------------------------------------------------------------------------
(* Several controllers: add on another controller, and merge *)

\* ParameterController.add of a controller with suffix sfx: the loop from
\* ps[i] on
RECURSIVE PC_add_loop(_, _, _, _, _)
PC_add_loop(sfx, ps, i, m, nms) ==
    IF i > Len(ps) THEN [exc |-> "none", msg |-> <<>>, mapping |-> m, name |-> nms]
    ELSE LET r == PC_add_one(sfx, m, nms, ps[i])
         IN  IF r.exc # "none" THEN r
             ELSE PC_add_loop(sfx, ps, i + 1, r.mapping, r.name)

\* c.add(*ps) for one of the other controllers
ctrl_add(c, ps) ==
    LET r == PC_add_loop(ctrls[c].suffix, ps, 1, ctrls[c].mapping, name)
    IN  /\ ctrls' = [ctrls EXCEPT ![c].mapping = r.mapping]
        /\ name' = r.name
        /\ last' = [op |-> "add", obj |-> c, arg |-> ps,
                    exc |-> r.exc, msg |-> r.msg]
        /\ UNCHANGED <<raw, bounds, rel, fit, coupler, couplers, return_mode,
                       mapping, suffix>>
        /\ UNCHANGED <<ds, fh, running_index, trace, solver, evals>>

\* ParameterController.__iter__: the unsuffixed keys, in insertion order
PC_iter(m) == [i \in DOMAIN m |-> unsuffixed_name(m[i].key)]

\* ParameterController.merge(other) of the master controller, other being
\* the controller c: the loop over the keys of other, from keys[i] on
RECURSIVE merge_loop(_, _, _, _, _)
merge_loop(c, keys, i, m, nms) ==
    IF i > Len(keys) THEN [exc |-> "none", msg |-> <<>>, mapping |-> m, name |-> nms]
    ELSE LET g == PC_get(ctrls[c].suffix, ctrls[c].mapping, keys[i])
         IN  IF g.exc # "none"
             THEN [exc |-> "KeyError", msg |-> keys[i], mapping |-> m, name |-> nms]
             ELSE LET r == add_one(m, nms, g.obj)
                  IN  IF r.exc # "none" THEN r
                      ELSE merge_loop(c, keys, i + 1, r.mapping, r.name)

merge(c) ==
    LET r == merge_loop(c, PC_iter(ctrls[c].mapping), 1, mapping, name)
    IN  /\ mapping' = r.mapping
        /\ name' = r.name
        /\ last' = [op |-> "merge", obj |-> "pc", arg |-> <<c>>,
                    exc |-> r.exc, msg |-> r.msg]
        /\ UNCHANGED <<raw, bounds, rel, fit, coupler, couplers, return_mode,
                       suffix>>
        /\ UNCHANGED fitter_vars

MergeObjs == {"base", "dup", "m1"}

InitMerge ==
    \E sfx \in {<<>>, <<"sfx">>} : Construct(<<"base">>, sfx, "+", "+", "False")

NextMerge ==
    \/ \E c \in OtherCtrls, p \in MergeObjs : ctrl_add(c, <<p>>)
    \/ \E c \in OtherCtrls : merge(c)

SpecMerge == InitMerge /\ [][NextMerge]_vars

----------------------------------------------------------------------------
(* Attaching couplers *)

\* p.coupler = c; p.coupler.couple(p): what Parameter.__init__ does with the
\* coupler it is given, done again later on the parameter p with the
\* coupler instance c
attach(p, c) ==
    /\ coupler' = [coupler EXCEPT ![p] = c]
    /\ couplers' = [couplers EXCEPT ![c].modifier = p]
    /\ last' = CallArg("attach", p, <<c>>, "none")
    /\ UNCHANGED <<name, raw, bounds, rel, fit, return_mode, mapping, suffix>>
    /\ UNCHANGED fitter_vars

\* the couplers that are attached and re-attached: the NoCoupler of base
\* and the arithmetic couplers built for m1 (on base) and m2 (on m1)
Attachable == {"base", "m1", "m2"}

InitAttach ==
    \E op1 \in ArithOps, shared \in BOOLEAN :
        ConstructWith(<<"base">>, <<>>, op1, "+", "False", shared)

NextAttach ==
    \/ \E p \in Attachable, c \in Attachable : attach(p, c)
    \/ \E o \in {"base", "m1"}, v \in Vals : set_value(o, v)

SpecAttach == InitAttach /\ [][NextAttach]_vars

----------------------------------------------------------------------------
(* Dataset *)

\* the values the forward models read: get_value() of every Parameter
ParamValues == [o \in Params |-> GetValue(o)]

\* the forward models (sim_func): fixed curves, the two models of the
\* fitter tests, which read three parameters, and a model that gives one
\* point when base is negative and three otherwise; pv is ParamValues at
\* the time of the call
SimFuncs == {"squares", "short", "long", "shifted", "f1", "f2", "powers",
             "tens", "adaptive"}
sim_func(f, pv) ==
    CASE f = "squares" -> [exc |-> "none", x |-> <<1, 2, 3>>, y |-> <<1, 4, 9>>]
      [] f = "powers" -> [exc |-> "none", x |-> <<1, 2, 3>>, y |-> <<1, 100, 100>>]
      [] f = "tens" -> [exc |-> "none", x |-> <<1, 2, 3>>, y |-> <<90, 90, 990>>]
      [] f = "short" -> [exc |-> "none", x |-> <<1, 3>>, y |-> <<1, 9>>]
      [] f = "adaptive" ->
             IF pv["base"].t # "int"
             THEN [exc |-> "TypeError", x |-> <<>>, y |-> <<>>]
             ELSE IF pv["base"].n < 0
             THEN [exc |-> "none", x |-> <<2>>, y |-> <<4>>]
             ELSE [exc |-> "none", x |-> <<1, 2, 3>>,
                   y |-> <<1 + pv["base"].n, 4, 9>>]
      [] f = "shifted" -> [exc |-> "none", x |-> <<2, 3, 4>>, y |-> <<4, 9, 16>>]
      [] f = "long" ->
             [exc |-> "none", x |-> <<1, 2, 3, 4>>, y |-> <<1, 4, 9, 16>>]
      [] f \in {"f1", "f2"} ->
             IF \E o \in {"base", "m1", "dup"} : pv[o].t # "int"
             THEN [exc |-> "TypeError", x |-> <<>>, y |-> <<>>]
             ELSE [exc |-> "none", x |-> <<0>>,
                   y |-> <<IF f = "f1"
                           THEN pv["base"].n + pv["m1"].n + pv["dup"].n
                           ELSE pv["base"].n - pv["m1"].n + pv["dup"].n>>]

\* np.interp(q, xp, fp) at one point q (xp increasing); the scenes keep the
\* quotient exact
interp_at(q, xp, fp) ==
    IF q <= xp[1] THEN fp[1]
    ELSE IF q >= xp[Len(xp)] THEN fp[Len(xp)]
    ELSE LET j == CHOOSE j \in 1..(Len(xp) - 1) : xp[j] <= q /\ q < xp[j + 1]
         IN  fp[j] + ((fp[j + 1] - fp[j]) * (q - xp[j])) \div (xp[j + 1] - xp[j])

\* np.interp(x, xp, fp)
interp(x, xp, fp) == [i \in 1..Len(x) |-> interp_at(x[i], xp, fp)]

\* Dataset._interpolate_data
Dataset_interpolate_data(D) ==
    IF Len(D.y_sim) >= Len(D.y)
    THEN [D EXCEPT !.y_sim = interp(D.x, D.x_sim, D.y_sim), !.x_sim = D.x]
    ELSE [D EXCEPT !.y = interp(D.x_sim, D.x, D.y), !.x = D.x_sim]

\* the length of the result of broadcasting two one-dimensional arrays
\* (-1: the shapes do not broadcast, numpy raises ValueError)
BroadcastLen(n, k) ==
    IF n = k THEN n ELSE IF n = 1 THEN k ELSE IF k = 1 THEN n ELSE -1

\* element i of an array broadcast to a longer one
At(a, i) == IF Len(a) = 1 THEN a[1] ELSE a[i]

\* the end of Dataset.simulate: self.y_sim += self.bkg and the return
Dataset_add_bkg(D) ==
    IF D.bkg = <<>> THEN [exc |-> "none", d |-> D]
    ELSE IF BroadcastLen(Len(D.y_sim), Len(D.bkg)) # Len(D.y_sim)
    THEN [exc |-> "ValueError", d |-> D]
    ELSE [exc |-> "none",
          d |-> [D EXCEPT !.y_sim =
                   [i \in 1..Len(D.y_sim) |-> D.y_sim[i] + At(D.bkg, i)]]]

\* Dataset.simulate after sim_func() returned s
Dataset_simulated(D, s) ==
    IF s.exc # "none" THEN [exc |-> s.exc, d |-> D]
    ELSE IF Len(s.y) # Len(D.y)
    THEN Dataset_add_bkg(Dataset_interpolate_data(
             [D EXCEPT !.x_sim = s.x, !.y_sim = s.y, !.simulated = TRUE]))
    ELSE Dataset_add_bkg(
             [D EXCEPT !.x_sim = s.x, !.y_sim = s.y, !.simulated = TRUE])

\* Dataset.simulate on the dataset record D: [exc, d]
Dataset_simulate(D, pv) ==
    Only({Dataset_simulated(D, s) : s \in {sim_func(D.sim_func, pv)}})

\* Dataset.num_masked
num_masked(D) == Cardinality({i \in 1..Len(D.mask) : D.mask[i]})

\* np.where(x > limit, True, mask) and np.where(x < limit, True, mask):
\* [exc, mask]
mask_where(hit, mask) ==
    LET n == BroadcastLen(Len(hit), Len(mask))
    IN  IF n = -1 THEN [exc |-> "ValueError", mask |-> mask]
        ELSE [exc |-> "none",
              mask |-> [i \in 1..n |-> IF At(hit, i) THEN TRUE ELSE At(mask, i)]]

\* a mask_above that also masks the points at the limit
Dataset_mask_above_inclusive(D, limit) ==
    mask_where([i \in 1..Len(D.x) |-> D.x[i] >= limit], D.mask)

\* Dataset.mask_above and Dataset.mask_below on the record D: [exc, mask]
Dataset_mask_above(D, limit) ==
    mask_where([i \in 1..Len(D.x) |-> D.x[i] > limit], D.mask)
Dataset_mask_below(D, limit) ==
    mask_where([i \in 1..Len(D.x) |-> D.x[i] < limit], D.mask)

\* Dataset._init_mask: np.full_like(self.x, False, dtype=bool)
Dataset_init_mask(D) == [i \in 1..Len(D.x) |-> FALSE]

----------------------------------------------------------------------------
(* FOMCalculator *)

\* the keys of FOMCalculator._map
MapKeys == {"diff", "diff_norm", "log", "R1", "R1_log", "R2", "R2_log",
            "log_rangeNorm", "diff_rangeNorm", "chi2", "chi"}

Abs(n) == IF n < 0 THEN -n ELSE n

RECURSIVE SumAbs(_)
SumAbs(a) == IF a = <<>> THEN 0 ELSE Abs(Head(a)) + SumAbs(Tail(a))

\* fom_funcs.handle_masked_FOM: np.where(dataset.mask, 0., FOM_array);
\* [exc, a]  (the mask of a Dataset is never None)
handle_masked_FOM(arr, D) ==
    LET n == BroadcastLen(Len(D.mask), Len(arr))
    IN  IF n = -1 THEN [exc |-> "ValueError", a |-> <<>>]
        ELSE [exc |-> "none",
              a |-> [i \in 1..n |-> IF At(D.mask, i) THEN 0 ELSE At(arr, i)]]

\* fom_funcs.diff_array: dataset.y - y_s, masked; [exc, a]
diff_array(y_s, D) ==
    LET n == BroadcastLen(Len(D.y), Len(y_s))
    IN  IF n = -1 THEN [exc |-> "ValueError", a |-> <<>>]
        ELSE handle_masked_FOM([i \in 1..n |-> At(D.y, i) - At(y_s, i)], D)

\* fom_funcs.FOM_diff: np.sum(np.abs(array)) / (len(array) - numMasked)
FOM_diff(array, D) == Q(SumAbs(array), Len(array) - num_masked(D))

\* FOMCalculator._create_fom_array for 'diff'
create_fom_array(D) ==
    Only({IF arr.exc # "none" THEN arr ELSE handle_masked_FOM(arr.a, D) :
            arr \in {diff_array(D.y_sim, D)}})

\* FOMCalculator.calc after dataset.simulate() returned sim, for 'diff':
\* [exc, d, x_sim, y_sim, fom_array, fom]
FOMCalculator_calc(sim) ==
    IF sim.exc # "none"
    THEN [exc |-> sim.exc, d |-> sim.d, x_sim |-> <<>>, y_sim |-> <<>>,
          fom_array |-> <<>>, fom |-> QNone]
    ELSE Only({IF arr.exc # "none"
               THEN [exc |-> arr.exc, d |-> sim.d, x_sim |-> sim.d.x_sim,
                     y_sim |-> sim.d.y_sim, fom_array |-> <<>>, fom |-> QNone]
               ELSE [exc |-> "none", d |-> sim.d, x_sim |-> sim.d.x_sim,
                     y_sim |-> sim.d.y_sim, fom_array |-> arr.a,
                     fom |-> FOM_diff(arr.a, sim.d)] :
                 arr \in {create_fom_array(sim.d)}})

\* the other metrics work on floats, kept as reduced quotients num/den; a
\* den of 0 is inf (num > 0), -inf (num < 0) or nan (num = 0), which is
\* what numpy gives for x/0 and log10(0)
RECURSIVE Gcd(_, _)
Gcd(a, b) == IF b = 0 THEN a ELSE Gcd(b, a % b)

QNorm(n, d) ==
    IF d = 0 THEN Q(IF n > 0 THEN 1 ELSE IF n < 0 THEN -1 ELSE 0, 0)
    ELSE Only({Q((IF d < 0 THEN -n ELSE n) \div g, Abs(d) \div g) :
                 g \in {Gcd(Abs(n), Abs(d))}})

QPlus(a, b) == QNorm(a.num * b.den + b.num * a.den, a.den * b.den)
QSub(a, b) == QNorm(a.num * b.den - b.num * a.den, a.den * b.den)
QMul(a, b) == QNorm(a.num * b.num, a.den * b.den)
QDiv(a, b) == QNorm(a.num * b.den, a.den * b.num)
QAbs(a) == Q(Abs(a.num), a.den)
QMin(a, b) == IF a.num * b.den <= b.num * a.den THEN a ELSE b

\* np.sum of an array of floats
RECURSIVE QSumArray(_)
QSumArray(a) ==
    IF a = <<>> THEN Q(0, 1) ELSE QPlus(Head(a), QSumArray(Tail(a)))

\* np.sqrt and np.log10 on the numbers of the scene, where they are exact:
\* the squares up to 100 * 100 and the powers of ten up to 10 ** 4;
\* log10(0) is -inf and the logarithm of a negative number is nan
Sqrt(n) == Q(CHOOSE r \in 0..100 : r * r = n, 1)
Pow10 == <<1, 10, 100, 1000, 10000>>
Log10(n) ==
    IF n = 0 THEN Q(-1, 0) ELSE IF n < 0 THEN Q(0, 0)
    ELSE Q((CHOOSE k \in 1..Len(Pow10) : Pow10[k] = n) - 1, 1)
Sign(n) == IF n > 0 THEN 1 ELSE IF n < 0 THEN -1 ELSE 0
MaxOf(S) == CHOOSE m \in S : \A k \in S : k <= m
MinOf(S) == CHOOSE m \in S : \A k \in S : m <= k

\* the *_array functions of fom_funcs other than diff_array, one per metric
\* of FOMCalculator._map, each ending in handle_masked_FOM: [exc, a];
\* chi and chi2 divide by dataset.error, which is None unless given
array_func(fom_type, y_s, D) ==
    LET n == BroadcastLen(Len(D.y), Len(y_s))
        y(i) == At(D.y, i)
        s(i) == At(y_s, i)
        unmasked == {D.y[i] : i \in {j \in 1..Len(D.y) : ~At(D.mask, j)}}
        range == IF unmasked = {} THEN Q(-1, 0)
                 ELSE Q(MaxOf(unmasked) - MinOf(unmasked), 1)
        shifted == {Abs(D.y[i]) + 10 : i \in 1..Len(D.y)}
        lrange == QSub(Log10(MaxOf(shifted)), Log10(MinOf(shifted)))
        elem(i) ==
            CASE fom_type = "diff_norm" ->
                     QMin(Q(3, 2), QAbs(QNorm(y(i) - s(i),
                                              MaxOf({1, Abs(y(i))}))))
              [] fom_type = "diff_rangeNorm" -> QDiv(Q(y(i) - s(i), 1), range)
              [] fom_type = "log" -> QSub(Log10(y(i)), Log10(s(i)))
              [] fom_type = "R1" ->
                     QAbs(QSub(QMul(Q(Sign(y(i)), 1), Sqrt(Abs(y(i)))),
                               QMul(Q(Sign(s(i)), 1), Sqrt(Abs(s(i))))))
              [] fom_type = "log_rangeNorm" ->
                     QDiv(QSub(Log10(Abs(s(i)) + 10), Log10(Abs(y(i)) + 10)),
                          lrange)
              [] fom_type = "R1_log" ->
                     QAbs(QSub(Log10(Sqrt(y(i)).num), Log10(Sqrt(s(i)).num)))
              [] fom_type = "R2" -> Q((y(i) - s(i)) * (y(i) - s(i)), 1)
              [] fom_type = "R2_log" ->
                     Only({QMul(l, l) :
                             l \in {QSub(Log10(y(i)), Log10(s(i)))}})
              [] fom_type = "chi2" ->
                     Only({QMul(c, c) :
                             c \in {QNorm(y(i) - s(i), At(D.error, i))}})
              [] fom_type = "chi" -> QNorm(y(i) - s(i), At(D.error, i))
    IN  IF n = -1 THEN [exc |-> "ValueError", a |-> <<>>]
        ELSE IF fom_type \in {"chi", "chi2"} /\ D.error = <<>>
        THEN [exc |-> "TypeError", a |-> <<>>]
        ELSE IF \/ fom_type = "diff_rangeNorm"
                   /\ BroadcastLen(Len(D.mask), Len(D.y)) = -1
                \/ fom_type \in {"chi", "chi2"}
                   /\ BroadcastLen(n, Len(D.error)) = -1
        THEN [exc |-> "ValueError", a |-> <<>>]
        ELSE Only({IF BroadcastLen(Len(D.mask), Len(arr)) = -1
                   THEN [exc |-> "ValueError", a |-> <<>>]
                   ELSE [exc |-> "none",
                         a |-> [i \in 1..BroadcastLen(Len(D.mask), Len(arr))
                                  |-> IF At(D.mask, i) THEN Q(0, 1)
                                      ELSE At(arr, i)]] :
                     arr \in {[i \in 1..n |-> elem(i)]}})

\* the FOM_* reductions of FOMCalculator._map on the masked array: FOM_diff
\* for diff_norm, the rangeNorm metrics, chi and chi2; FOM_log, which reads
\* dataset.parameters and dataset.num_maskedPoints, attributes no Dataset
\* has; and the R1/R2 family, whose divisor is a sum over the masked-zeroed
\* experimental y: [exc, fom]
FOM(fom_type, array, D) ==
    LET ym == [i \in 1..Len(D.y) |-> IF At(D.mask, i) THEN 0 ELSE D.y[i]]
        total ==
            CASE fom_type = "R1" ->
                     QSumArray([i \in 1..Len(ym) |-> Sqrt(ym[i])])
              [] fom_type = "R1_log" ->
                     QSumArray([i \in 1..Len(ym) |-> Log10(Sqrt(ym[i]).num)])
              [] fom_type = "R2" ->
                     QSumArray([i \in 1..Len(ym) |-> Q(ym[i] * ym[i], 1)])
              [] fom_type = "R2_log" ->
                     QSumArray([i \in 1..Len(ym) |->
                                  IF At(D.mask, i) THEN Q(0, 1)
                                  ELSE Only({QMul(l, l) :
                                               l \in {Log10(D.y[i])}})])
    IN  IF fom_type = "log" THEN [exc |-> "AttributeError", fom |-> QNone]
        ELSE IF fom_type \in {"R1", "R1_log", "R2", "R2_log"}
        THEN IF BroadcastLen(Len(D.mask), Len(D.y)) = -1
             THEN [exc |-> "ValueError", fom |-> QNone]
             ELSE [exc |-> "none", fom |-> QDiv(QSumArray(array), total)]
        ELSE [exc |-> "none",
              fom |-> QDiv(QSumArray([i \in 1..Len(array) |-> QAbs(array[i])]),
                           Q(Len(array) - num_masked(D), 1))]

\* FOMCalculator.calc after dataset.simulate() returned sim, for a metric
\* other than 'diff': the array, then its reduction
FOMCalculator_calc_metric(sim, fom_type) ==
    IF sim.exc # "none"
    THEN [exc |-> sim.exc, d |-> sim.d, x_sim |-> <<>>, y_sim |-> <<>>,
          fom_array |-> <<>>, fom |-> QNone]
    ELSE Only({IF arr.exc # "none"
               THEN [exc |-> arr.exc, d |-> sim.d, x_sim |-> sim.d.x_sim,
                     y_sim |-> sim.d.y_sim, fom_array |-> <<>>, fom |-> QNone]
               ELSE Only({[exc |-> f.exc, d |-> sim.d, x_sim |-> sim.d.x_sim,
                           y_sim |-> sim.d.y_sim,
                           fom_array |-> IF f.exc = "none" THEN arr.a
                                         ELSE <<>>,
                           fom |-> f.fom] :
                            f \in {FOM(fom_type, arr.a, sim.d)}}) :
                 arr \in {array_func(fom_type, sim.d.y_sim, sim.d)}})

\* FOMCalculator(dataset, fom_type): __init__ on the dataset record D
FOMCalculator(D, fom_type, pv) ==
    IF fom_type \notin MapKeys
    THEN [exc |-> "KeyError", d |-> D, x_sim |-> <<>>, y_sim |-> <<>>,
          fom_array |-> <<>>, fom |-> QNone]
    ELSE Only({IF fom_type = "diff" THEN FOMCalculator_calc(sim)
               ELSE FOMCalculator_calc_metric(sim, fom_type) :
                 sim \in {Dataset_simulate(D, pv)}})

----------------------------------------------------------------------------
(* FOMHandler *)

\* the most datasets and the most hooks registered on one handler
MaxDatasets == 2
MaxHooks == 2

\* the most often one hook runs before the evaluations stop
MaxCount == 3

\* sum and quotient of FOM numbers (Python's sum starts from the int 0)
QAdd(a, b) ==
    IF a.t = "int" /\ b.t = "int" THEN QInt(a.num + b.num)
    ELSE Q(a.num * b.den + b.num * a.den, a.den * b.den)

RECURSIVE QSum(_)
QSum(fs) == IF fs = <<>> THEN QInt(0) ELSE QAdd(Head(fs), QSum(Tail(fs)))

\* preprocess() calls that start from the hook registered last
RECURSIVE run_preprocessors_reversed(_, _, _)
run_preprocessors_reversed(funcs, i, st) ==
    IF i > Len(funcs) THEN st
    ELSE run_preprocessors_reversed(funcs, i + 1,
             [st EXCEPT !.running_index[funcs[Len(funcs) + 1 - i]] = @ + 1,
                        !.trace = Append(@, <<"hook", funcs[Len(funcs) + 1 - i]>>)])

\* the preprocess() calls of FOMHandler.calc, from funcs[i] on: each hook
\* of the scene counts its calls; st is [ds, fh, running_index, trace]
RECURSIVE run_preprocessors(_, _, _)
run_preprocessors(funcs, i, st) ==
    IF i > Len(funcs) THEN st
    ELSE run_preprocessors(funcs, i + 1,
             [st EXCEPT !.running_index[funcs[i]] = @ + 1,
                        !.trace = Append(@, <<"hook", funcs[i]>>)])

\* the list comprehension of FOMCalculators of FOMHandler.calc, from
\* entries[i] on: [exc, st, calcs]
RECURSIVE run_calculators(_, _, _, _, _)
run_calculators(entries, i, st, calcs, pv) ==
    IF i > Len(entries) THEN [exc |-> "none", st |-> st, calcs |-> calcs]
    ELSE Only({
           Only({IF c.exc # "none"
                 THEN [exc |-> c.exc, st |-> st1, calcs |-> calcs]
                 ELSE run_calculators(entries, i + 1, st1, Append(calcs, c), pv) :
                   st1 \in {[st EXCEPT
                               !.ds[entries[i].dataset] = c.d,
                               !.trace = IF entries[i].fom_type \in MapKeys
                                         THEN Append(@, <<"sim", entries[i].dataset>>)
                                         ELSE @]}}) :
             c \in {FOMCalculator(st.ds[entries[i].dataset],
                                  entries[i].fom_type, pv)}})

\* a composite FOM averaged over all registered datasets
composite_over_all(foms, fit_flags) ==
    LET s == QSum(foms) IN Q(s.num, s.den * Len(fit_flags))

\* sum(self.foms) / sum(fit_flags), for at least one fit flag
composite(foms, fit_flags) ==
    LET s == QSum(foms)
    IN  Q(s.num, s.den * Cardinality({i \in DOMAIN fit_flags : fit_flags[i]}))

\* the fields FOMHandler.calc assigns from the calculators, before the
\* composite FOM
calc_results(fh0, calcs, fit_flags) ==
    [preprocessor_funcs |-> fh0.preprocessor_funcs,
     datasets |-> fh0.datasets,
     x_sims |-> [i \in DOMAIN calcs |-> calcs[i].x_sim],
     y_sims |-> [i \in DOMAIN calcs |-> calcs[i].y_sim],
     fom_arrays |-> [i \in DOMAIN calcs |->
                       IF fit_flags[i]
                       THEN [t |-> "array", a |-> calcs[i].fom_array]
                       ELSE [t |-> "None", a |-> <<>>]],
     foms |-> [i \in DOMAIN calcs |->
                 IF fit_flags[i] THEN calcs[i].fom ELSE QInt(0)],
     composite_fom |-> fh0.composite_fom]

\* the end of FOMHandler.calc, r being the outcome of the calculators
FOMHandler_reduce(fh0, fit_flags, r) ==
    IF r.exc # "none" THEN [exc |-> r.exc, st |-> r.st]
    ELSE Only({IF \A i \in DOMAIN fit_flags : ~fit_flags[i]
               THEN [exc |-> "ZeroDivisionError",
                     st |-> [r.st EXCEPT !.fh = fh1]]
               ELSE [exc |-> "none",
                     st |-> [r.st EXCEPT
                               !.fh = [fh1 EXCEPT !.composite_fom =
                                          composite(fh1.foms, fit_flags)]]] :
                 fh1 \in {calc_results(fh0, r.calcs, fit_flags)}})

\* FOMHandler.calc on st = [ds, fh, running_index, trace]: [exc, st]
FOMHandler_calc(st, pv) ==
    Only({FOMHandler_reduce(st.fh,
              [i \in DOMAIN st.fh.datasets |-> st.fh.datasets[i].fit], r) :
            r \in {run_calculators(st.fh.datasets, 1,
                       run_preprocessors(st.fh.preprocessor_funcs, 1, st),
                       <<>>, pv)}})

\* the state the FOM computation works on
FomState == [ds |-> ds, fh |-> fh, running_index |-> running_index,
             trace |-> <<>>]

----------------------------------------------------------------------------
(* Operations on datasets, calculators and the handler *)

\* the state of the parameters and of the master controller
param_vars == <<name, raw, bounds, rel, fit, coupler, couplers, return_mode,
                mapping, suffix>>

\* d.mask_above(limit)
mask_above(d, limit) ==
    LET r == Dataset_mask_above(ds[d], limit)
    IN  /\ ds' = [ds EXCEPT ![d].mask = r.mask]
        /\ last' = CallArg("mask_above", d, <<limit>>, r.exc)
        /\ UNCHANGED <<param_vars, ctrls, fh, running_index, trace, solver,
                       evals>>

\* d.mask_below(limit)
mask_below(d, limit) ==
    LET r == Dataset_mask_below(ds[d], limit)
    IN  /\ ds' = [ds EXCEPT ![d].mask = r.mask]
        /\ last' = CallArg("mask_below", d, <<limit>>, r.exc)
        /\ UNCHANGED <<param_vars, ctrls, fh, running_index, trace, solver,
                       evals>>

\* d.clear_mask()
clear_mask(d) ==
    /\ ds' = [ds EXCEPT ![d].mask = Dataset_init_mask(ds[d])]
    /\ last' = Call("clear_mask", d, "none")
    /\ UNCHANGED <<param_vars, ctrls, fh, running_index, trace, solver,
                       evals>>

\* d.sim_func = f (a plain attribute)
set_sim_func(d, f) ==
    /\ ds' = [ds EXCEPT ![d].sim_func = f]
    /\ last' = CallArg("set_sim_func", d, <<f>>, "none")
    /\ UNCHANGED <<param_vars, ctrls, fh, running_index, trace, solver,
                       evals>>

\* d.simulate(): the returned pair is kept in last.msg
simulate(d) ==
    \E r \in {Dataset_simulate(ds[d], ParamValues)} :
        /\ ds' = [ds EXCEPT ![d] = r.d]
        /\ trace' = <<<<"sim", d>>>>
        /\ last' = [op |-> "simulate", obj |-> d, arg |-> <<>>,
                    exc |-> r.exc,
                    msg |-> IF r.exc = "none"
                            THEN [x_sim |-> r.d.x_sim, y_sim |-> r.d.y_sim]
                            ELSE <<>>]
        /\ UNCHANGED <<param_vars, ctrls, fh, running_index, solver, evals>>

\* FOMCalculator(d, fom_type): the calculator's fields are kept in last.msg
new_FOMCalculator(d, fom_type) ==
    \E c \in {FOMCalculator(ds[d], fom_type, ParamValues)} :
        /\ ds' = [ds EXCEPT ![d] = c.d]
        /\ trace' = IF fom_type \in MapKeys THEN <<<<"sim", d>>>> ELSE <<>>
        /\ last' = [op |-> "FOMCalculator", obj |-> d, arg |-> <<fom_type>>,
                    exc |-> c.exc,
                    msg |-> [x_sim |-> c.x_sim, y_sim |-> c.y_sim,
                             fom_array |-> c.fom_array, fom |-> c.fom]]
        /\ UNCHANGED <<param_vars, ctrls, fh, running_index, solver, evals>>

\* FOMHandler.add_preprocessor and Fitter.add_preprocessor
add_preprocessor(h) ==
    /\ Len(fh.preprocessor_funcs) < MaxHooks
    /\ fh' = [fh EXCEPT !.preprocessor_funcs = Append(@, h)]
    /\ trace' = <<>>
    /\ last' = Call("add_preprocessor", h, "none")
    /\ UNCHANGED <<param_vars, ctrls, ds, running_index, solver, evals>>

\* FOMHandler.add_dataset and Fitter.add_dataset
add_dataset(d, fom_type, fit_flag) ==
    /\ Len(fh.datasets) < MaxDatasets
    /\ fh' = [fh EXCEPT !.datasets =
                 Append(@, [dataset |-> d, fom_type |-> fom_type,
                            fit |-> fit_flag])]
    /\ trace' = <<>>
    /\ last' = CallArg("add_dataset", d, <<fom_type, fit_flag>>, "none")
    /\ UNCHANGED <<param_vars, ctrls, ds, running_index, solver, evals>>

\* no hook has run MaxCount times yet
MayEvaluate == \A h \in Hooks : running_index[h] < MaxCount

\* FOMHandler.calc()
calc ==
    \E r \in {FOMHandler_calc(FomState, ParamValues)} :
        /\ MayEvaluate
        /\ ds' = r.st.ds
        /\ fh' = r.st.fh
        /\ running_index' = r.st.running_index
        /\ trace' = r.st.trace
        /\ last' = Call("calc", "fh", r.exc)
        /\ UNCHANGED <<param_vars, ctrls, solver, evals>>

\* the limits of the masking calls on x = (1, 2, 3)
Limits == {1, 2}

\* one dataset under masking and changing forward models, and its calculators
InitCalc == Construct(<<"base">>, <<>>, "+", "+", "False")

NextCalc ==
    \/ \E l \in Limits : mask_above("d1", l)
    \/ \E l \in Limits : mask_below("d1", l + 1)
    \/ clear_mask("d1")
    \/ \E f \in {"squares", "short", "long"} : set_sim_func("d1", f)
    \/ \E d \in {"d1", "d2"} : new_FOMCalculator(d, "diff")

SpecCalc == InitCalc /\ [][NextCalc]_vars

\* one dataset that is simulated on its own grid, on a shorter, a longer
\* and a shifted one, and masked
InitSim == Construct(<<"base">>, <<>>, "+", "+", "False")

NextSim ==
    \/ \E l \in Limits : mask_above("d1", l)
    \/ \E l \in Limits : mask_below("d1", l + 1)
    \/ clear_mask("d1")
    \/ \E f \in {"squares", "short", "long", "shifted"} : set_sim_func("d1", f)
    \/ simulate("d1")

SpecSim == InitSim /\ [][NextSim]_vars

\* every metric on d5, and on d6 the metrics that shift or clip; d5 may be
\* masked
MetricPairs ==
    ({"d5"} \X (MapKeys \ {"log_rangeNorm"}))
        \cup ({"d6"} \X {"log_rangeNorm", "diff_norm", "chi"})

InitMetric == Construct(<<"base">>, <<>>, "+", "+", "False")

NextMetric ==
    \/ \E l \in Limits : mask_above("d5", l)
    \/ \E l \in Limits : mask_below("d5", l + 1)
    \/ clear_mask("d5")
    \/ \E c \in MetricPairs : new_FOMCalculator(c[1], c[2])

SpecMetric == InitMetric /\ [][NextMetric]_vars

\* a handler with hooks and datasets; d2 may be masked above 2
InitFOM == Construct(<<"base">>, <<>>, "+", "+", "False")

NextFOM ==
    \/ \E h \in Hooks : add_preprocessor(h)
    \/ \E d \in {"d1", "d2"}, fit_flag \in BOOLEAN :
           add_dataset(d, "diff", fit_flag)
    \/ mask_above("d2", 2)
    \/ calc

SpecFOM == InitFOM /\ [][NextFOM]_vars

----------------------------------------------------------------------------
(* Fitter *)

\* the objects of a mapping, in insertion order
ObjsOf(m) == [i \in DOMAIN m |-> m[i].obj]

\* para.fit as a condition
IsFitted(o) == Fit(o) = "True"

\* a values generator that never looks at the fit flags
ParameterController_values_unfiltered(only_fitted) == ObjsOf(mapping)

\* ParameterController.values(only_fitted) of the master controller
ParameterController_values(only_fitted) ==
    IF only_fitted THEN SelectSeq(ObjsOf(mapping), IsFitted)
    ELSE ObjsOf(mapping)

\* ParameterController.keys(only_fitted, suffixed) of the master controller
ParameterController_keys(only_fitted, suffixed) ==
    LET vs == ParameterController_values(only_fitted)
    IN  [i \in DOMAIN vs |-> IF suffixed THEN suffixed_name(name[vs[i]])
                             ELSE unsuffixed_name(name[vs[i]])]

\* a bounds generator that runs over all the parameters of the controller
ParameterController_bounds_of_all(only_fitted) ==
    [i \in DOMAIN ObjsOf(mapping) |-> Bounds(ObjsOf(mapping)[i])]

\* ParameterController.bounds(only_fitted) of the master controller: the
\* outcomes [exc, b] of para.bounds
ParameterController_bounds(only_fitted) ==
    LET vs == ParameterController_values(only_fitted)
    IN  [i \in DOMAIN vs |-> Bounds(vs[i])]

\* Fitter.fit_keys
fit_keys == ParameterController_keys(TRUE, TRUE)

\* Fitter.create_DE_solver: [exc, bounds].  The list of the bounds is built
\* first; DifferentialEvolutionSolver refuses (ValueError) a list that is
\* empty or holds a None
create_DE_solver ==
    LET bs == ParameterController_bounds(TRUE)
    IN  IF \E i \in DOMAIN bs : bs[i].exc # "none"
        THEN [exc |-> bs[CHOOSE i \in DOMAIN bs :
                            /\ bs[i].exc # "none"
                            /\ \A j \in 1..(i - 1) : bs[j].exc = "none"].exc,
              bounds |-> <<>>]
        ELSE IF bs = <<>> \/ \E i \in DOMAIN bs : bs[i].b = <<>>
        THEN [exc |-> "ValueError", bounds |-> <<>>]
        ELSE [exc |-> "none", bounds |-> [i \in DOMAIN bs |-> bs[i].b]]

\* the candidate vectors of a Solver working in the bounds bs: every entry is
\* the lower or the upper limit of its bound
Candidates(bs) ==
    {v \in [DOMAIN bs -> UNION {{bs[i][1], bs[i][2]} : i \in DOMAIN bs}] :
        \A i \in DOMAIN bs : v[i] \in {bs[i][1], bs[i][2]}}

\* a pairing that hands the values to the keys in reverse
zip_reversed(keys, vals) ==
    LET n == IF Len(keys) < Len(vals) THEN Len(keys) ELSE Len(vals)
    IN  [i \in 1..n |-> [key |-> keys[i], val |-> vals[n + 1 - i]]]

\* Fitter.update_master_controller: [(key, val) for key, val in zip(keys, vals)]
zip(keys, vals) ==
    LET n == IF Len(keys) < Len(vals) THEN Len(keys) ELSE Len(vals)
    IN  [i \in 1..n |-> [key |-> keys[i], val |-> vals[i]]]

\* the most objective evaluations of one Solver run
MaxEvals == 2

\* Fitter.fom_func(fit_vals), called by who: the update of the master
\* controller, FOMHandler.calc() on the updated parameters, and the returned
\* composite FOM (in last.msg)
fom_func_call(who, fit_vals) ==
    \E u \in {update_loop(zip(fit_keys, fit_vals), 1, raw)} :
        /\ raw' = u.raw
        /\ UNCHANGED <<name, bounds, rel, fit, coupler, couplers, return_mode,
                       mapping, suffix, ctrls>>
        /\ IF u.exc # "none"
           THEN /\ UNCHANGED <<ds, fh, running_index>>
                /\ trace' = <<>>
                /\ last' = [op |-> "fom_func", obj |-> who, arg |-> fit_vals,
                            exc |-> u.exc, msg |-> QNone]
           ELSE \E r \in {FOMHandler_calc(FomState, ParamValues')} :
                    /\ ds' = r.st.ds
                    /\ fh' = r.st.fh
                    /\ running_index' = r.st.running_index
                    /\ trace' = r.st.trace
                    /\ last' = [op |-> "fom_func", obj |-> who,
                                arg |-> fit_vals, exc |-> r.exc,
                                msg |-> IF r.exc = "none"
                                        THEN r.st.fh.composite_fom ELSE QNone]

\* no optimize() is running (optimize is one synchronous call)
Idle == solver.phase = "idle"

\* fitter.fom_func(fit_vals), called directly
fom_func(fit_vals) ==
    /\ Idle
    /\ MayEvaluate
    /\ fom_func_call("fitter", fit_vals)
    /\ UNCHANGED <<solver, evals>>

\* Fitter.optimize up to the call of solver.solve(): the Solver is created
\* with the bounds of the fitted parameters
optimize_start ==
    /\ Idle
    /\ \E c \in {create_DE_solver} :
          IF c.exc # "none"
          THEN /\ last' = Call("optimize", "fitter", c.exc)
               /\ UNCHANGED solver
          ELSE /\ last' = Call("solve", "solver", "none")
               /\ solver' = [phase |-> "solving", bounds |-> c.bounds,
                             nfev |-> 0, tried |-> {}, x |-> <<>>,
                             last_v |-> <<>>, index0 |-> running_index]
    /\ trace' = <<>>
    /\ UNCHANGED <<param_vars, ctrls, ds, fh, running_index, evals>>

\* solver.solve() evaluates the objective on a candidate vector and counts the
\* evaluation; an exception of the objective leaves solve() and optimize()
solver_eval(v) ==
    /\ solver.phase = "solving"
    /\ solver.nfev < MaxEvals
    /\ MayEvaluate
    /\ v \in Candidates(solver.bounds)
    /\ fom_func_call("solver", v)
    /\ solver' = IF last'.exc # "none" THEN [solver EXCEPT !.phase = "idle"]
                 ELSE [solver EXCEPT
                         !.nfev = @ + 1,
                         !.tried = @ \cup {[v |-> v, fun |-> last'.msg]},
                         !.last_v = v]
    /\ UNCHANGED evals

\* optimal_vals taken from the last candidate the Solver evaluated
optimal_vals_of_last_trial(result) == solver.last_v

\* optimal_vals = result.x
optimal_vals(result) == result.x

\* solver.solve() returns result (x is one of the evaluated vectors, nfev the
\* count of the evaluations), and the rest of Fitter.optimize:
\* self.fom_func(optimal_vals); return result
optimize_finish(x) ==
    /\ solver.phase = "solving"
    /\ solver.nfev > 0
    /\ \E t \in solver.tried : t.v = x
    /\ fom_func_call("optimize", optimal_vals([x |-> x, nfev |-> solver.nfev]))
    /\ solver' = [solver EXCEPT !.phase = "idle", !.x = x]
    /\ UNCHANGED evals

\* a Fitter on a master controller of base, m1 (fitted) and dup, with the
\* datasets d3 and d4 whose forward models read the three parameters
InitFitter ==
    \E sfx \in {<<>>, <<"sfx">>} : Construct(<<"base">>, sfx, "+", "+", "True")

\* the setup phase: nothing has been simulated or optimized yet
Setup == Idle /\ solver.x = <<>> /\ \A d \in Dsets : ~ds[d].simulated

NextFitter ==
    \/ Setup /\ add(<<"base", "m1", "dup">>)
    \/ Setup /\ \E f \in {"True", "False"} : set_fit("base", f)
    \/ Setup /\ fh.preprocessor_funcs = <<>> /\ add_preprocessor("h1")
    \/ Setup /\ fh.datasets = <<>> /\ add_dataset("d3", "diff", TRUE)
    \/ Setup /\ Len(fh.datasets) = 1 /\ add_dataset("d4", "diff", TRUE)
    \/ \E c \in {create_DE_solver} : \E v \in Candidates(c.bounds) : fom_func(v)
    \/ optimize_start
    \/ \E v \in Candidates(solver.bounds) : solver_eval(v)
    \/ \E t \in solver.tried : optimize_finish(t.v)

SpecFitter == InitFitter /\ [][NextFitter]_vars

\* Two threads call fitter.fom_func on the same Fitter.  A thread may be
\* preempted between any two bytecodes; the steps kept apart here are the
\* writes of ParameterController.update (one set_value per pair), calc()
\* and the read of fom_handler.composite_fom for the return.

\* the thread t is inside fom_func
Running(t) == evals[t].pc \notin {"idle", "done"}

\* t calls fitter.fom_func(v): fit_keys and the pairs are built
eval_start(t, v) ==
    /\ evals[t].pc = "idle"
    /\ evals' = [u \in Threads |->
                   IF u = t
                   THEN [evals[t] EXCEPT
                           !.pc = IF zip(fit_keys, v) = <<>> THEN "calc"
                                  ELSE "update",
                           !.v = v,
                           !.overlapped = \E o \in Threads : Running(o)]
                   ELSE [evals[u] EXCEPT !.overlapped = @ \/ Running(u)]]
    /\ last' = CallArg("eval_start", t, v, "none")
    /\ trace' = <<>>
    /\ UNCHANGED <<param_vars, ctrls, ds, fh, running_index, solver>>

\* a loop that hands the first pair to every turn
next_pair_first(t) == zip(fit_keys, evals[t].v)[1]

\* for key, val in key_val_tuples: the pair of the next turn of the thread t
next_pair(t) == zip(fit_keys, evals[t].v)[evals[t].i]

\* one turn of the loop of update: self.get(key).set_value(val)
eval_write(t) ==
    /\ evals[t].pc = "update"
    /\ \E u \in {update_loop(<<next_pair(t)>>, 1, raw)} :
          /\ raw' = u.raw
          /\ evals' = [evals EXCEPT
                         ![t].i = @ + 1,
                         ![t].pc = IF u.exc # "none" THEN "done"
                                   ELSE IF evals[t].i
                                             = Len(zip(fit_keys, evals[t].v))
                                   THEN "calc" ELSE "update"]
          /\ last' = Call("eval_write", t, u.exc)
    /\ trace' = <<>>
    /\ UNCHANGED <<name, bounds, rel, fit, coupler, couplers, return_mode,
                   mapping, suffix, ctrls, ds, fh, running_index, solver>>

\* self.fom_handler.calc() of the thread t, on the parameters as they are
eval_calc(t) ==
    /\ evals[t].pc = "calc"
    /\ \E r \in {FOMHandler_calc(FomState, ParamValues)} :
          /\ ds' = r.st.ds
          /\ fh' = r.st.fh
          /\ running_index' = r.st.running_index
          /\ trace' = r.st.trace
          /\ evals' = [evals EXCEPT
                         ![t].pc = IF r.exc = "none" THEN "return" ELSE "done",
                         ![t].seen = [i \in DOMAIN ParameterController_values(TRUE)
                                        |-> raw[ParameterController_values(TRUE)[i]]]]
          /\ last' = Call("eval_calc", t, r.exc)
    /\ UNCHANGED <<param_vars, ctrls, solver>>

\* return self.fom_handler.composite_fom
eval_return(t) ==
    /\ evals[t].pc = "return"
    /\ evals' = [evals EXCEPT ![t].pc = "done", ![t].fom = fh.composite_fom]
    /\ last' = Call("eval_return", t, "none")
    /\ trace' = <<>>
    /\ UNCHANGED <<param_vars, ctrls, ds, fh, running_index, solver>>

\* a Fitter with base and m1 fitted and the datasets d3 and d4, called by
\* two threads, each once
InitRace == Construct(<<"base">>, <<>>, "+", "+", "True")

RaceSetup == Setup /\ \A t \in Threads : evals[t].pc = "idle"

NextRace ==
    \/ RaceSetup /\ add(<<"base", "m1", "dup">>)
    \/ RaceSetup /\ fit["base"] = "False" /\ set_fit("base", "True")
    \/ RaceSetup /\ fh.datasets = <<>> /\ add_dataset("d3", "diff", TRUE)
    \/ RaceSetup /\ Len(fh.datasets) = 1 /\ add_dataset("d4", "diff", TRUE)
    \/ /\ \A d \in {"d3", "d4"} :
              \E i \in DOMAIN fh.datasets : fh.datasets[i].dataset = d
       /\ \A o \in {"base", "m1"} :
              \E i \in DOMAIN fit_keys : fit_keys[i] = suffixed_name(name[o])
       /\ \E t \in Threads, c \in {create_DE_solver} :
              \E v \in Candidates(c.bounds) : eval_start(t, v)
    \/ \E t \in Threads : eval_write(t)
    \/ \E t \in Threads : eval_calc(t)
    \/ \E t \in Threads : eval_return(t)

SpecRace == InitRace /\ [][NextRace]_vars

\* a Fitter with base fitted and the dataset d7, whose forward model reads
\* base; d3 may be registered too, and m1 may be fitted
InitPure ==
    \E sfx \in {<<>>, <<"sfx">>} : Construct(<<"base">>, sfx, "+", "+", "False")

NextPure ==
    \/ Setup /\ add(<<"base", "m1", "dup">>)
    \/ Setup /\ \E p \in {"base", "m1"}, f \in {"True", "False"} : set_fit(p, f)
    \/ Setup /\ fh.datasets = <<>> /\ add_dataset("d7", "diff", TRUE)
    \/ Setup /\ Len(fh.datasets) = 1 /\ add_dataset("d3", "diff", TRUE)
    \/ /\ fh.datasets # <<>>
       /\ \E i \in DOMAIN fit_keys : fit_keys[i] = suffixed_name(name["base"])
       /\ \E c \in {create_DE_solver} :
              \E v \in Candidates(c.bounds) : fom_func(v)

SpecPure == InitPure /\ [][NextPure]_vars

\* the master controller alone, with parameters added in two orders, also
\* to another controller, and their fit flags and bounds changing
InitKeys ==
    \E sfx \in {<<>>, <<"sfx">>} : Construct(<<"base">>, sfx, "+", "+", "True")

NextKeys ==
    \/ \E ps \in {<<"base", "ref">>, <<"m1", "dup">>, <<"dup", "base">>} : add(ps)
    \/ \E p \in {"base", "m1", "dup"}, f \in {"True", "False"} : set_fit(p, f)
    \/ \E p \in {"base", "dup"}, b \in BoundVals : set_bounds(p, b)
    \/ ctrl_add("pcA", <<"m1">>)

SpecKeys == InitKeys /\ [][NextKeys]_vars

Next ==
    \/ \E o \in Obj, v \in Vals : set_value(o, v)
    \/ \E m \in ReturnModes : set_return_mode(m)

Spec == Init /\ [][Next]_vars

----------------------------------------------------------------------------
(* C1 *)

\* the three operations, written out on numbers
Combine(op, x, y) ==
    CASE op = "+" -> x + y
      [] op = "-" -> x - y
      [] op = "*" -> x * y

\* C1: a Parameter coupled by +, - or * to a base B reads as B.get_value()
\* combined with its own raw value, recursively through chains of couplings,
\* after any sequence of set_value calls; with raw values 10, 5 and 2 the
\* second modifier reads 17, 3 and 100.
C1_ArithmeticCoupling ==
    /\ \A p \in Params :
          couplers[coupler[p]].op \in ArithOps =>
              /\ GetValue(p).t = "int"
              /\ GetValue(BaseOf(p)).t = "int"
              /\ GetRaw(p) = raw[p]
              /\ GetValue(p).n = Combine(couplers[coupler[p]].op,
                                         GetValue(BaseOf(p)).n, raw[p].n)
    /\ GetValue("m2").n =
           Combine(couplers["m2"].op,
                   Combine(couplers["m1"].op, raw["base"].n, raw["m1"].n),
                   raw["m2"].n)
    /\ (raw["base"].n = 10 /\ raw["m1"].n = 5 /\ raw["m2"].n = 2
        /\ couplers["m1"].op = couplers["m2"].op) =>
           GetValue("m2").n = CASE couplers["m2"].op = "+" -> 17
                                [] couplers["m2"].op = "-" -> 3
                                [] couplers["m2"].op = "*" -> 100

\* base.set_value(3) was the last of three calls; (3 - (-1)) * 3 = 12
C1_Witness ==
    /\ last = Call("set_value", "base", "none")
    /\ couplers["m1"].op = "-" /\ couplers["m2"].op = "*"
    /\ raw["base"] = Int_(3) /\ raw["m1"] = Int_(-1) /\ raw["m2"] = Int_(3)
    /\ GetValue("m2") = Int_(12)

----------------------------------------------------------------------------
(* C2 *)

\* the parameters a coupled parameter's value is derived from
RECURSIVE Chain(_, _)
Chain(o, d) ==
    IF d = 0 \/ BaseOf(o) = "none" THEN {}
    ELSE {BaseOf(o)} \cup Chain(BaseOf(o), d - 1)

\* C2: set_value on a Parameter changes only that parameter's raw value: the
\* raw and the effective value of its base and of every parameter further
\* down the chain stay, and set_value on a base leaves its modifiers' raw
\* values as they were.
C2_SetValueFrame ==
    [][\A o \in Params :
          (last'.op = "set_value" /\ last'.obj = o) =>
              /\ \A q \in Obj \ {o} : raw'[q] = raw[q]
              /\ UNCHANGED <<name, bounds, rel, fit, coupler, couplers>>
              /\ \A b \in Chain(o, MaxDepth) :
                    /\ raw'[b] = raw[b]
                    /\ GetValue(b)' = GetValue(b)]_vars

\* m2.set_value(-1) changed m2 and nothing below it
C2_Witness ==
    /\ last = Call("set_value", "m2", "none")
    /\ raw["m2"] = Int_(-1)
    /\ raw["m1"] = Int_(5) /\ raw["base"] = Int_(10)
    /\ Chain("m2", MaxDepth) = {"m1", "base"}

----------------------------------------------------------------------------
(* C3 *)

----------------------------------------------------------------------------
(* C4 *)

\* the coupled value of m1, written out
M1Value == Combine(couplers["m1"].op, raw["base"].n, raw["m1"].n)

\* C4: with bounds_are_relative a read of bounds gives (low * value,
\* high * value) for the parameter's coupled value at the time of the read;
\* without it the stored pair is returned as it is.
C4_RelativeBounds ==
    /\ \A p \in Params :
          (bounds[p] # <<>> /\ ~rel[p]) => Bounds(p) = BOk(bounds[p])
    /\ \A p \in Params :
          (bounds[p] # <<>> /\ rel[p]) =>
              /\ GetValue(p).t = "int"
              /\ Bounds(p) = BOk(<<bounds[p][1] * GetValue(p).n,
                                   bounds[p][2] * GetValue(p).n>>)
    /\ (bounds["m1"] # <<>> /\ rel["m1"]) =>
           Bounds("m1") = BOk(<<bounds["m1"][1] * M1Value,
                                bounds["m1"][2] * M1Value>>)

\* base.set_value(3) moved the relative bounds (1, 4) of m1 = base + 5
C4_Witness ==
    /\ last = Call("set_value", "base", "none")
    /\ rel["m1"] /\ bounds["m1"] = <<1, 4>>
    /\ couplers["m1"].op = "+"
    /\ raw["base"] = Int_(3) /\ raw["m1"] = Int_(5)
    /\ Bounds("m1") = BOk(<<8, 32>>)

----------------------------------------------------------------------------
(* C5 *)

\* C5: a ReferenceParameter reads as the parameter it references: value and
\* get_value() are the referenced parameter's coupled value,
\* get_value(no_coupling=True) its raw value, bounds its bounds.
C5_ReferenceReads ==
    /\ value("ref") = GetValue("m1")
    /\ GetValue("ref") = GetValue("m1")
    /\ GetRaw("ref") = raw["m1"]
    /\ Bounds("ref") = Bounds("m1")

----------------------------------------------------------------------------
(* C6 *)

\* C6: reading fit on a ReferenceParameter gives the fit flag of the
\* referenced Parameter.
C6_ReferenceFit == Fit("ref") = Fit("m1")

----------------------------------------------------------------------------
(* C7 *)

\* C7: set_value on a ReferenceParameter and assigning its bounds or its fit
\* each fail with TypeError and leave the raw value, bounds and fit flag of
\* the referenced Parameter (and of everything else) as they were, also when
\* the assignment is attempted through ParameterController.update.
C7_ReferenceIsReadOnly ==
    [][/\ (last'.obj = "ref" /\ last'.op \in {"set_value", "set_bounds", "set_fit"}) =>
              /\ last'.exc = "TypeError"
              /\ UNCHANGED <<raw, bounds, fit>>
       /\ (/\ last'.op = "update"
           /\ "ref" \in {mapping[i].obj : i \in DOMAIN mapping}
           /\ (last'.arg[1] \o last'.arg[2]) # <<>>
           /\ Head(last'.arg[1] \o last'.arg[2]) = <<"identical">>) =>
              /\ last'.exc = "TypeError"
              /\ UNCHANGED <<raw, bounds, fit>>
       /\ (last'.op = "update" /\ last'.exc = "TypeError") =>
              /\ UNCHANGED <<bounds, fit>>
              /\ raw'["ref"] = raw["ref"]
              /\ <<"first", "_", "modifier">> \notin
                     {(last'.arg[1] \o last'.arg[2])[i] :
                         i \in DOMAIN (last'.arg[1] \o last'.arg[2])} =>
                     raw'["m1"] = raw["m1"]]_vars

\* pc.update(identical=...) was refused; the referenced parameter keeps the
\* raw value and the fit flag it was given before
C7_Witness ==
    /\ last.op = "update" /\ last.arg = <<<<>>, <<<<"identical">>>>>>
    /\ last.exc = "TypeError"
    /\ raw["m1"] = Int_(3)
    /\ fit["m1"] = "True"
    /\ raw["ref"] = None

----------------------------------------------------------------------------
(* C8 *)

\* C8: set_value on an aggregate parameter (ParameterGroup, ComplexParameter,
\* ScatteringFactorParameter) fails with an error and changes neither the
\* aggregate nor a member's raw value.
C8_AggregateSetValueFails ==
    [][\A a \in Aggregates :
          (last'.op = "set_value" /\ last'.obj = a) =>
              /\ last'.exc # "none"
              /\ UNCHANGED <<raw, bounds, rel, fit, return_mode>>]_vars

----------------------------------------------------------------------------
(* C9 *)

\* the coupled values of the four members of sf, written out
ChargeReal == raw["base"].n
ChargeImag == M1Value
MagnReal == Combine(couplers["m2"].op, M1Value, raw["m2"].n)
MagnImag == raw["dup"].n

\* C9: the value of a ScatteringFactorParameter is chosen by its return mode
\* from the members' coupled values: 'full' and '+' add the magnetic to the
\* charge part, 'charge' and 'magn' give one part, '-' subtracts the magnetic
\* part; an unknown mode raises NameError on reading value; changing the
\* mode changes no member's raw value.
C9_ReturnModes ==
    /\ [](ScatteringFactorParameter_value("sf") =
            CASE return_mode \in {"full", "+"} ->
                     Complex_(ChargeReal + MagnReal, ChargeImag + MagnImag)
              [] return_mode = "charge" -> Complex_(ChargeReal, ChargeImag)
              [] return_mode = "magn" -> Complex_(MagnReal, MagnImag)
              [] return_mode = "-" ->
                     Complex_(ChargeReal - MagnReal, ChargeImag - MagnImag)
              [] return_mode = "unknown_mode" -> CExc("NameError"))
    /\ [][last'.op = "set_return_mode" => raw' = raw]_vars

\* mode '-' with base 10, m1 = 10 + 5, m2 = 15 + 2, dup 7:
\* (10 - 17) + (15 - 7)i
C9_Witness ==
    /\ last = Call("set_return_mode", "sf", "none")
    /\ return_mode = "-"
    /\ couplers["m1"].op = "+" /\ couplers["m2"].op = "+"
    /\ raw["base"] = Int_(10) /\ raw["m1"] = Int_(5)
    /\ raw["m2"] = Int_(2) /\ raw["dup"] = Int_(7)
    /\ ScatteringFactorParameter_value("sf") = Complex_(-7, 8)

----------------------------------------------------------------------------
(* C10 *)

\* the logical (unsuffixed) name each object was constructed with
LogicalName(o) ==
    CASE o \in {"base", "dup"} -> <<"base">>
      [] o = "m1"  -> <<"first", "_", "modifier">>
      [] o = "ref" -> <<"identical">>

\* the key the controller stores an object under
StoredKey(o) ==
    IF suffix = <<>> THEN LogicalName(o)
    ELSE LogicalName(o) \o <<"_", "_", "sfx">>

\* C10: after add(P) with logical name n, get(n) is P; re-adding the same
\* object leaves the mapping (contents and order) as it was; adding another
\* object with logical name n raises a ValueError whose message contains n
\* and leaves the mapping and the names as they were.
C10_AddAndDuplicates ==
    [][(last'.op = "add" /\ Len(last'.arg) = 1) =>
          LET p == last'.arg[1]
              bound == {i \in DOMAIN mapping : mapping[i].key = StoredKey(p)}
          IN  /\ bound = {} =>
                     /\ last'.exc = "none"
                     /\ mapping' = Append(mapping, [key |-> StoredKey(p), obj |-> p])
                     /\ ParameterController_get(mapping', LogicalName(p)).obj = p
              /\ (bound # {} /\ \A i \in bound : mapping[i].obj = p) =>
                     /\ last'.exc = "none"
                     /\ mapping' = mapping
                     /\ ParameterController_get(mapping', LogicalName(p)).obj = p
              /\ (bound # {} /\ \E i \in bound : mapping[i].obj # p) =>
                     /\ last'.exc = "ValueError"
                     /\ last'.msg = LogicalName(p)
                     /\ mapping' = mapping
                     /\ name' = name]_vars

\* with suffix 'sfx', a second object named 'base__old' was refused under the
\* name "base" bound to another object
C10_Witness ==
    /\ last = [op |-> "add", obj |-> "pc", arg |-> <<"dup">>,
               exc |-> "ValueError", msg |-> <<"base">>]
    /\ suffix = <<"sfx">>
    /\ name["dup"] = <<"base", "_", "_", "old">>
    /\ Len(mapping) = 2
    /\ mapping[2] = [key |-> <<"base", "_", "_", "sfx">>, obj |-> "base"]

----------------------------------------------------------------------------
(* C11 *)

\* C11: when one controller holds a Parameter under the logical name "base",
\* another controller with a different suffix holds a distinct Parameter
\* under the same logical name, and a third controller holds nothing but what
\* was merged into it, merging either of the two into the third raises no
\* duplicate-name error (ValueError).
C11_MergeOverlappingNames ==
    [][(/\ last'.op = "merge"
        /\ {ctrls["pcA"].mapping[i].obj : i \in DOMAIN ctrls["pcA"].mapping}
               = {"base"}
        /\ {ctrls["pcB"].mapping[i].obj : i \in DOMAIN ctrls["pcB"].mapping}
               = {"dup"}
        /\ ctrls["pcA"].suffix # ctrls["pcB"].suffix) =>
           last'.exc # "ValueError"]_vars

----------------------------------------------------------------------------
(* C12 *)

\* the object the controller holds under a name of OrderKeys ("none" when
\* the name is unknown to it)
Named(key) ==
    LET o == CASE key = <<"base">> -> "base"
               [] key = <<"first", "_", "modifier">> -> "m1"
               [] OTHER -> "none"
    IN  IF \E i \in DOMAIN mapping : mapping[i].obj = o THEN o ELSE "none"

\* the position of the first unknown name among the keys (0 when all are known)
FirstUnknown(keys) ==
    IF \A i \in DOMAIN keys : Named(keys[i]) # "none" THEN 0
    ELSE CHOOSE i \in DOMAIN keys :
             /\ Named(keys[i]) = "none"
             /\ \A j \in 1..(i - 1) : Named(keys[j]) # "none"

\* C12: update applies its positional pairs in order and then its keyword
\* pairs, each setting the named parameter's raw value; at the first unknown
\* name it raises KeyError naming it, the assignments made before that name
\* stay and no later pair is applied.
C12_UpdateInOrderNoRollback ==
    [][last'.op = "update" =>
          LET keys == last'.arg[1] \o last'.arg[2]
              n == Len(keys)
              k == FirstUnknown(keys)
              applied == IF k = 0 THEN n ELSE k - 1
          IN  \A vs \in [1..n -> Vals] :
                  update([i \in 1..Len(last'.arg[1]) |->
                             [key |-> keys[i], val |-> vs[i]]],
                         [i \in 1..Len(last'.arg[2]) |->
                             [key |-> keys[Len(last'.arg[1]) + i],
                              val |-> vs[Len(last'.arg[1]) + i]]]) =>
                      /\ last'.exc = IF k = 0 THEN "none" ELSE "KeyError"
                      /\ k # 0 => last'.msg = keys[k]
                      /\ \A o \in Obj :
                            LET hits == {i \in 1..applied : Named(keys[i]) = o}
                            IN  raw'[o] =
                                  IF hits = {} THEN raw[o]
                                  ELSE Int_(vs[CHOOSE i \in hits :
                                                  \A j \in hits : j <= i])]_vars

\* pc.update(('base', -1), nokey=3) failed at 'nokey' after 'base' was set,
\* following an update that set the coupled parameter to 3
C12_Witness ==
    /\ last.op = "update" /\ last.exc = "KeyError" /\ last.msg = <<"nokey">>
    /\ last.arg = << <<<<"base">>>>, <<<<"nokey">>>> >>
    /\ raw["base"] = Int_(-1)
    /\ raw["m1"] = Int_(3)

----------------------------------------------------------------------------
(* C13 *)

\* the fit flag of o is set (a ReferenceParameter reports None)
HasFitFlag(o) == kind[o] # "ReferenceParameter" /\ fit[o] = "True"

\* the fitted parameters of the master controller, in insertion order
FittedObjs == SelectSeq(ObjsOf(mapping), HasFitFlag)

\* C13 as stated: Fitter.fit_keys is the list of the unsuffixed names of the
\* master controller's parameters whose fit flag is true, in insertion
\* order, also when the controller has a non-empty suffix.
C13_FitKeysUnsuffixed ==
    fit_keys = [i \in DOMAIN FittedObjs |-> LogicalName(FittedObjs[i])]

\* C13 amended: Fitter.fit_keys is the list of the names the controller
\* stores its fitted parameters under (the logical name followed by '__' and
\* the suffix when the controller has one), in insertion order; every such
\* key resolves through get to the parameter it came from.
C13_FitKeysAsStored ==
    /\ fit_keys = [i \in DOMAIN FittedObjs |-> StoredKey(FittedObjs[i])]
    /\ \A i \in DOMAIN FittedObjs :
           ParameterController_get(mapping, fit_keys[i]).obj = FittedObjs[i]

\* a controller with suffix 'sfx' holding base, the reference and the
\* coupled parameter, the first and the last of them fitted
C13_Witness ==
    /\ suffix = <<"sfx">>
    /\ ObjsOf(mapping) = <<"base", "ref", "m1">>
    /\ fit_keys = << <<"base", "_", "_", "sfx">>,
                     <<"first", "_", "modifier", "_", "_", "sfx">> >>

----------------------------------------------------------------------------
(* C14 *)

\* C14: the bounds handed to the Solver and fit_keys have the same length
\* and order: the i-th fit key resolves to the i-th fitted parameter of the
\* controller, the i-th bound is that parameter's bounds, and a value
\* written under the i-th fit key lands in that parameter.
C14_BoundsFollowFitKeys ==
    LET bs == ParameterController_bounds(TRUE)
    IN  /\ Len(bs) = Len(fit_keys)
        /\ \A i \in DOMAIN fit_keys :
               LET g == ParameterController_get(mapping, fit_keys[i])
               IN  /\ g.exc = "none"
                   /\ g.obj = FittedObjs[i]
                   /\ bs[i] = Bounds(g.obj)
                   /\ \A v \in Vals :
                          update_loop(<<[key |-> fit_keys[i], val |-> v]>>, 1, raw).raw
                              = [raw EXCEPT ![g.obj] = Int_(v)]

\* two fitted parameters with different bounds behind a parameter that is
\* not fitted, the second renamed by another controller
C14_Witness ==
    /\ ObjsOf(mapping) = <<"dup", "m1">>
    /\ fit["dup"] = "False" /\ fit["m1"] = "True"
    /\ name["m1"] = <<"first", "_", "modifier", "_", "_", "a">>
    /\ create_DE_solver = [exc |-> "none", bounds |-> << <<1, 4>> >>]

----------------------------------------------------------------------------
(* C15 *)

\* |y - y_sim| of the one-point datasets d3 (y = 8, simulated by f1) and d4
\* (y = 2, simulated by f2) at the current parameter values
Residual(d) ==
    IF d = "d3"
    THEN Abs(8 - (ParamValues["base"].n + ParamValues["m1"].n
                    + ParamValues["dup"].n))
    ELSE Abs(2 - (ParamValues["base"].n - ParamValues["m1"].n
                    + ParamValues["dup"].n))

RECURSIVE SumResiduals(_)
SumResiduals(entries) ==
    IF entries = <<>> THEN 0
    ELSE Residual(Head(entries).dataset) + SumResiduals(Tail(entries))

\* what one calc() of the handler leaves in the trace: every hook in
\* registration order, then one simulation per registered dataset
OneCalc ==
    [i \in DOMAIN fh.preprocessor_funcs |-> <<"hook", fh.preprocessor_funcs[i]>>]
        \o [i \in DOMAIN fh.datasets |-> <<"sim", fh.datasets[i].dataset>>]

\* the number of times the hook h is registered
Registered(h) ==
    Cardinality({i \in DOMAIN fh.preprocessor_funcs : fh.preprocessor_funcs[i] = h})

\* C15: a call of the objective with the vector v that returns sets the raw
\* value of the i-th fitted parameter to v[i], leaves every other raw value,
\* runs calc() exactly once (on the updated parameters) and returns the
\* composite FOM of that calc.
C15_ObjectiveWritesThenCalcs ==
    [][(last'.op = "fom_func" /\ last'.exc = "none") =>
          /\ Len(last'.arg) = Len(FittedObjs)
          /\ \A i \in DOMAIN FittedObjs : raw'[FittedObjs[i]] = Int_(last'.arg[i])
          /\ \A o \in Obj :
                 (\A i \in DOMAIN FittedObjs : FittedObjs[i] # o) => raw'[o] = raw[o]
          /\ trace' = OneCalc
          /\ \A h \in Hooks : running_index'[h] = running_index[h] + Registered(h)
          /\ last'.msg = fh'.composite_fom
          /\ fh'.composite_fom.num * Len(fh.datasets)
                 = SumResiduals(fh.datasets)' * fh'.composite_fom.den
          /\ fh'.composite_fom.den # 0]_vars

\* fitter.fom_func([-2, 4]) with base and m1 fitted, one hook and both
\* datasets: f1 gives 7 against 8, f2 gives 3 against 2, the mean is 2 / 2
C15_Witness ==
    /\ last.op = "fom_func" /\ last.obj = "fitter" /\ last.exc = "none"
    /\ last.arg = <<-2, 4>>
    /\ raw["base"] = Int_(-2) /\ raw["m1"] = Int_(4) /\ raw["dup"] = Int_(7)
    /\ trace = << <<"hook", "h1">>, <<"sim", "d3">>, <<"sim", "d4">> >>
    /\ last.msg = Q(2, 2)

----------------------------------------------------------------------------
(* C16 *)

\* C16: when optimize() returns, the raw value of every fitted parameter is
\* the corresponding entry of result.x, whatever vector the Solver evaluated
\* last, and the composite FOM of the handler is the value the objective
\* has for result.x.
C16_OptimumReapplied ==
    [][(last'.op = "fom_func" /\ last'.obj = "optimize" /\ last'.exc = "none") =>
          /\ Len(solver'.x) = Len(FittedObjs)
          /\ \A i \in DOMAIN FittedObjs : raw'[FittedObjs[i]] = Int_(solver'.x[i])
          /\ \A t \in solver.tried :
                 t.v = solver'.x => fh'.composite_fom = t.fun
          /\ fh'.composite_fom.num * Len(fh.datasets)
                 = SumResiduals(fh.datasets)' * fh'.composite_fom.den]_vars

\* optimize() returned <<-2, 1>> after the Solver had evaluated it first and
\* <<2, 4>> last
C16_Witness ==
    /\ last.op = "fom_func" /\ last.obj = "optimize" /\ last.exc = "none"
    /\ solver.phase = "idle" /\ solver.x = <<-2, 1>> /\ solver.last_v = <<2, 4>>
    /\ raw["base"] = Int_(-2) /\ raw["m1"] = Int_(1)
    /\ Len(fh.datasets) = 2

----------------------------------------------------------------------------
(* C18 *)

\* C18: when optimize() returns, a registered preprocessor has been invoked,
\* since optimize() was called, as many times as the Solver reports
\* objective evaluations (result.nfev).
C18_HookCountIsNfev ==
    [][(last'.op = "fom_func" /\ last'.obj = "optimize" /\ last'.exc = "none") =>
          \A h \in Hooks :
              Registered(h) = 1 =>
                  running_index'[h] - solver.index0[h] = solver'.nfev]_vars

----------------------------------------------------------------------------
(* C17 *)

\* C17: a calc() invokes every registered hook once per registration, in
\* registration order and before the first sim_func of that calc;
\* add_preprocessor and add_dataset invoke no hook.
C17_HooksOncePerCalc ==
    [][/\ last'.op = "calc" =>
            LET n == Len(fh.preprocessor_funcs)
            IN  /\ \A h \in Hooks :
                       running_index'[h] = running_index[h] + Registered(h)
                /\ Len(trace') >= n
                /\ \A i \in 1..n : trace'[i] = <<"hook", fh.preprocessor_funcs[i]>>
                /\ \A i \in (n + 1)..Len(trace') : trace'[i][1] = "sim"
                /\ fh.datasets # <<>> => Len(trace') > n
       /\ last'.op \in {"add_preprocessor", "add_dataset"} =>
            /\ running_index' = running_index
            /\ trace' = <<>>]_vars

\* a second calc() of a handler with the hooks h2 and h1, in this order, and
\* two datasets
C17_Witness ==
    /\ last.op = "calc"
    /\ fh.preprocessor_funcs = <<"h2", "h1">>
    /\ trace = << <<"hook", "h2">>, <<"hook", "h1">>, <<"sim", "d1">>, <<"sim", "d2">> >>
    /\ running_index = [h \in Hooks |-> 2]

----------------------------------------------------------------------------
(* C19 *)

\* six times the 'diff' FOM of a three-point dataset simulated as the
\* squares of x: the sum of |y - x^2| over the unmasked points divided by the
\* number of unmasked points (3 or 2 in this scene)
SixFold(D) ==
    LET live == {i \in 1..3 : ~D.mask[i]}
        total == SumAbs([i \in 1..3 |-> IF i \in live THEN D.y[i] - i * i ELSE 0])
    IN  (6 \div Cardinality(live)) * total

RECURSIVE SixFoldSum(_)
SixFoldSum(entries) ==
    IF entries = <<>> THEN 0
    ELSE (IF Head(entries).fit THEN SixFold(ds[Head(entries).dataset]) ELSE 0)
         + SixFoldSum(Tail(entries))

\* the number of datasets registered with fit=True
NumFit == Cardinality({i \in DOMAIN fh.datasets : fh.datasets[i].fit})

\* C19: after a calc() with at least one fit=True dataset, composite_fom is
\* the sum of the FOMs of the fit=True datasets divided by their number;
\* the fit=False datasets are simulated as well (x_sim and y_sim are there)
\* and count neither in the sum nor in the divisor.
C19_CompositeIsMeanOfFitted ==
    [][(last'.op = "calc" /\ NumFit > 0) =>
          /\ last'.exc = "none"
          /\ fh'.composite_fom.den # 0
          /\ fh'.composite_fom.num * 6 * NumFit
                 = SixFoldSum(fh.datasets) * fh'.composite_fom.den
          /\ Len(fh'.x_sims) = Len(fh.datasets)
          /\ Len(fh'.y_sims) = Len(fh.datasets)
          /\ \A i \in DOMAIN fh.datasets :
                 /\ fh'.x_sims[i] = <<1, 2, 3>>
                 /\ fh'.y_sims[i] = <<1, 4, 9>>
                 /\ ds'[fh.datasets[i].dataset].simulated
                 /\ ~fh.datasets[i].fit => fh'.foms[i] = QInt(0)]_vars

\* d1 registered with fit=False before the masked d2 with fit=True: the
\* composite is the FOM of d2 alone, 4 / 2, and d1 was simulated
C19_Witness ==
    /\ last.op = "calc" /\ last.exc = "none"
    /\ fh.datasets = << [dataset |-> "d1", fom_type |-> "diff", fit |-> FALSE],
                        [dataset |-> "d2", fom_type |-> "diff", fit |-> TRUE] >>
    /\ fh.composite_fom = Q(4, 2)
    /\ fh.y_sims = << <<1, 4, 9>>, <<1, 4, 9>> >>
    /\ ds["d1"].simulated

----------------------------------------------------------------------------
(* C20 *)

\* C20: FOMCalculator(d, 'diff') simulates the dataset once, its fom_array
\* has one entry per point of the dataset and is 0 at every masked point,
\* and its fom is the sum of |y - y_sim| over the unmasked points divided by
\* (number of points - number of masked points).
C20_DiffFOM ==
    [][last'.op = "FOMCalculator" =>
          LET D == ds'[last'.obj]
              c == last'.msg
              n == Len(ds[last'.obj].x)
          IN  /\ last'.exc = "none"
              /\ trace' = << <<"sim", last'.obj>> >>
              /\ Len(c.fom_array) = n
              /\ \A i \in 1..n : D.mask[i] => c.fom_array[i] = 0
              /\ c.fom = Q(SumAbs([i \in 1..n |->
                                     IF D.mask[i] THEN 0 ELSE D.y[i] - D.y_sim[i]]),
                           n - num_masked(D))]_vars

----------------------------------------------------------------------------
(* C21 *)

\* the sums of an array of floats and of their magnitudes, for an array of
\* the metric 'diff' (whole numbers) and of the other metrics
C21_Floats(m, a) == IF m = "diff" THEN [i \in 1..Len(a) |-> Q(a[i], 1)] ELSE a
C21_SumAbs(m, a) ==
    QSumArray([i \in 1..Len(a) |-> QAbs(C21_Floats(m, a)[i])])

\* the sum derived from the experimental y by which R1, R1_log, R2 and
\* R2_log divide, masked points counting as zero
C21_Total(m, D) ==
    LET ym == [i \in 1..Len(D.y) |-> IF D.mask[i] THEN 0 ELSE D.y[i]]
    IN  QSumArray([i \in 1..Len(ym) |->
            CASE m = "R1" -> Sqrt(ym[i])
              [] m = "R1_log" -> Log10(Sqrt(ym[i]).num)
              [] m = "R2" -> Q(ym[i] * ym[i], 1)
              [] m = "R2_log" -> IF D.mask[i] THEN Q(0, 1)
                                 ELSE QMul(Log10(ym[i]), Log10(ym[i]))])

\* two floats are the same number (nan is the same as nan here)
C21_Same(a, b) == QNorm(a.num, a.den) = QNorm(b.num, b.den)

\* C21: for every metric identifier, FOMCalculator on a Dataset completes;
\* outside the R1/R2 family the FOM is the summed magnitude of the
\* masked-zeroed array divided by (number of points - number of masked
\* points), and for R1, R1_log, R2 and R2_log it is the sum of the array
\* divided by a sum derived from the experimental y.
C21_MetricsReduce ==
    [][(last'.op = "FOMCalculator" /\ last'.arg[1] \in MapKeys) =>
          LET m == last'.arg[1]
              D == ds'[last'.obj]
              a == last'.msg.fom_array
          IN  /\ last'.exc = "none"
              /\ \A i \in 1..Len(a) :
                     D.mask[i] => C21_Floats(m, a)[i] = Q(0, 1)
              /\ IF m \in {"R1", "R1_log", "R2", "R2_log"}
                 THEN C21_Same(last'.msg.fom,
                               QDiv(QSumArray(a), C21_Total(m, D)))
                 ELSE C21_Same(last'.msg.fom,
                               QDiv(C21_SumAbs(m, a),
                                    Q(Len(a) - num_masked(D), 1)))]_vars

----------------------------------------------------------------------------
(* C22 *)

\* C22: after every simulate() call the returned x_sim and y_sim are as
\* long as the dataset's y and x_sim equals the dataset's x; when the
\* simulated series is at least as long as the experimental one the
\* dataset's x and y are unchanged, otherwise they are replaced by the
\* simulated grid and the experimental values interpolated onto it.
C22_SimulateAligns ==
    [][(last'.op = "simulate" /\ last'.exc = "none") =>
          LET d == last'.obj
              s == sim_func(ds[d].sim_func, ParamValues)
          IN  /\ Len(last'.msg.x_sim) = Len(ds'[d].y)
              /\ Len(last'.msg.y_sim) = Len(ds'[d].y)
              /\ last'.msg.x_sim = ds'[d].x
              /\ IF Len(s.y) >= Len(ds[d].y)
                 THEN ds'[d].x = ds[d].x /\ ds'[d].y = ds[d].y
                 ELSE /\ ds'[d].x = s.x
                      /\ ds'[d].y = interp(s.x, ds[d].x, ds[d].y)]_vars

----------------------------------------------------------------------------
(* C23 *)

\* the length of x and y of d1 at construction
C23_Length == Len(InitDatasets["d1"].x)

\* C23: in every state reached by simulate(), mask_above, mask_below and
\* clear_mask calls, the Dataset's x and y keep the length they had at
\* construction and mask is an array of booleans as long as x.
C23_LengthsFixed ==
    /\ Len(ds["d1"].x) = C23_Length
    /\ Len(ds["d1"].y) = C23_Length
    /\ Len(ds["d1"].mask) = Len(ds["d1"].x)
    /\ \A i \in 1..Len(ds["d1"].mask) : ds["d1"].mask[i] \in BOOLEAN

----------------------------------------------------------------------------
(* C24 *)

\* the number of True entries of a mask, counted entry by entry
RECURSIVE C24_Count(_)
C24_Count(mask) ==
    IF mask = <<>> THEN 0
    ELSE (IF Head(mask) THEN 1 ELSE 0) + C24_Count(Tail(mask))

\* C24: masking is a monotonic union. A mask_above(l) call masks exactly
\* the points with x > l on top of those masked before, a mask_below(l)
\* call exactly those with x < l (a point with x = l is not masked by the
\* call), no masking call unmasks a point, clear_mask() and construction
\* leave every point unmasked, and num_masked is the count of masked
\* points. By induction over the calls a point is masked exactly when some
\* limit used since construction or the last clear_mask masks it.
C24_MaskIsUnion ==
    [][LET D == ds["d5"]
           E == ds'["d5"]
           l == last'.arg[1]
       IN  /\ Len(E.mask) = Len(E.x)
           /\ num_masked(E) = C24_Count(E.mask)
           /\ last.op = "init" => \A i \in 1..Len(D.x) : ~D.mask[i]
           /\ (last'.op = "mask_above" /\ last'.obj = "d5") =>
                  /\ last'.exc = "none"
                  /\ \A i \in 1..Len(D.x) :
                         E.mask[i] = (D.mask[i] \/ D.x[i] > l)
           /\ (last'.op = "mask_below" /\ last'.obj = "d5") =>
                  /\ last'.exc = "none"
                  /\ \A i \in 1..Len(D.x) :
                         E.mask[i] = (D.mask[i] \/ D.x[i] < l)
           /\ (last'.op = "clear_mask" /\ last'.obj = "d5") =>
                  \A i \in 1..Len(E.x) : ~E.mask[i]
           /\ last'.op = "FOMCalculator" => E.mask = D.mask]_vars

\* after mask_above(2) and then mask_below(2) on x = (1, 2, 3): the points
\* at 1 and 3 are masked, the point at the limit is not
C24_Witness ==
    /\ last.op = "mask_below" /\ last.arg = <<2>>
    /\ ds["d5"].mask = <<TRUE, FALSE, TRUE>>
    /\ num_masked(ds["d5"]) = 2

----------------------------------------------------------------------------
(* C25 *)

\* the vector of a thread as the raw values it writes
C25_Own(t) == [i \in DOMAIN evals[t].v |-> Int_(evals[t].v[i])]

\* C25, sequential part: a call of the objective during which no other call
\* ran computes its FOM from exactly its own vector (the fitted parameters
\* hold it when calc() runs and when the value is returned) and returns
\* the composite FOM of those values.
C25_SequentialUsesOwnVector ==
    [][\A t \in Threads :
          /\ (evals[t].pc = "calc" /\ evals'[t].pc = "return"
                  /\ ~evals'[t].overlapped) =>
                 /\ evals'[t].seen = C25_Own(t)
                 /\ fh'.composite_fom.num * Len(fh.datasets)
                        = SumResiduals(fh.datasets) * fh'.composite_fom.den
          /\ (evals[t].pc = "return" /\ evals'[t].pc = "done"
                  /\ ~evals'[t].overlapped) =>
                 /\ evals[t].seen = C25_Own(t)
                 /\ \A i \in DOMAIN FittedObjs :
                        raw[FittedObjs[i]] = C25_Own(t)[i]
                 /\ evals'[t].fom.num * Len(fh.datasets)
                        = SumResiduals(fh.datasets) * evals'[t].fom.den
                 /\ evals'[t].fom.den # 0]_vars

\* C25, interleaved part: t1 called the objective with (-2, 1) and t2 with
\* (2, 4); t2 wrote m1 between the last write and the calc() of t1, so t1
\* computed its FOM from (-2, 4), which is neither vector, and returned
\* 2 / 2 where a call on its own returns 8 / 2.
C25_Witness ==
    /\ evals["t1"].pc = "done" /\ evals["t1"].overlapped
    /\ evals["t1"].v = <<-2, 1>> /\ evals["t2"].v = <<2, 4>>
    /\ evals["t1"].seen = <<Int_(-2), Int_(4)>>
    /\ evals["t1"].seen # C25_Own("t1") /\ evals["t1"].seen # C25_Own("t2")
    /\ evals["t1"].fom = Q(2, 2)

----------------------------------------------------------------------------
(* C26 *)

\* the handler before any objective call: the datasets as constructed
C26_Fresh == [FomState EXCEPT !.ds = InitDatasets]

\* C26: with no preprocessor hooks, the value the objective returns for a
\* vector v is the value it returns for v on a Fitter that has seen no
\* earlier objective call (same registrations, same values of the
\* parameters that are not fitted): it does not depend on the vectors of
\* the earlier calls.
C26_ObjectiveIsPure ==
    [][(last'.op = "fom_func" /\ fh.preprocessor_funcs = <<>>) =>
          \E r \in {FOMHandler_calc(C26_Fresh, ParamValues')} :
              /\ last'.exc = r.exc
              /\ last'.exc = "none" => last'.msg = r.st.fh.composite_fom]_vars

----------------------------------------------------------------------------
(* C29 *)

\* C29: in every state reached by construction, fit assignments and bounds
\* assignments, a Parameter whose fit flag is true has bounds that are not
\* None.
C29_FittedHasBounds ==
    \A o \in {"base", "m1", "dup"} : fit[o] = "True" => bounds[o] # <<>>

----------------------------------------------------------------------------
(* C30 *)

\* C30: for a Parameter with bounds_are_relative true and stored bounds
\* (low, high) with low <= high, the pair returned by bounds has
\* first <= second, whatever the effective value of the parameter.
C30_RelativeBoundsOrdered ==
    \A o \in {"base", "m1", "dup"} :
        (rel[o] /\ bounds[o] # <<>> /\ bounds[o][1] <= bounds[o][2]
             /\ Bounds(o).exc = "none") =>
            Bounds(o).b[1] <= Bounds(o).b[2]

----------------------------------------------------------------------------
(* C27 *)

\* C27: in every reachable state the coupler attached to a Parameter has
\* that Parameter as its modifier, and no two Parameters have the same
\* coupler object, also when one coupler instance was given to two
\* constructors.
C27_CouplerOwnedByOne ==
    /\ \A p \in Params : couplers[coupler[p]].modifier = p
    /\ \A p \in Params : \A q \in Params \ {p} : coupler[p] # coupler[q]

----------------------------------------------------------------------------
(* C28 *)

\* the base the coupler of p points to ("none" for a NoCoupler), and the
\* parameter k steps up the chain of bases
C28_Base(p) == couplers[coupler[p]].base

RECURSIVE C28_Up(_, _)
C28_Up(p, k) ==
    IF p = "none" \/ k = 0 THEN p ELSE C28_Up(C28_Base(p), k - 1)

\* C28: after any constructions with couplers and later re-attachments the
\* modifier-to-base graph has no cycle, and reading the value of any
\* parameter returns (no RecursionError).
C28_Acyclic ==
    \A p \in Params :
        /\ \A k \in 1..Cardinality(Params) : C28_Up(p, k) # p
        /\ value(p).t # "RecursionError"

====
